---- MODULE Spec2Model ----
(***************************************************************************)
(* Model of the "I'm Running Live" server (src/server.js with the mongoose *)
(* schemas of src/db/models.js and the helpers of src/db/utils.js).        *)
(*                                                                         *)
(* Every HTTP handler is an async function: it runs synchronously between  *)
(* two awaits and may interleave with other handlers at each await.  One   *)
(* action of the model is one awaited store operation taking effect,       *)
(* together with the synchronous code that follows it up to the next       *)
(* await (the handler-local code before the first await is merged into     *)
(* the first step).  The parameter "ok" of a step is the outcome of the    *)
(* awaited store operation: TRUE when the promise resolves, FALSE when it  *)
(* rejects and control goes to the handler's catch block.                  *)
(***************************************************************************)
EXTENDS Integers, Sequences, FiniteSets, TLC

(***************************************************************************)
(* Bounds of the model.                                                    *)
(***************************************************************************)
MaxRequests == 3
MaxTime == 2
Preloaded == 11

(***************************************************************************)
(* Values.                                                                 *)
(***************************************************************************)
\* JavaScript undefined, for a numeric field; every number of the model is >= 0
Undefined == 0 - 1
\* the result of arithmetic on undefined
NaN == 0 - 2
\* x || 0
OrZero(x) == IF x = Undefined \/ x = NaN \/ x = 0 THEN 0 ELSE x
\* !x for a number or undefined
FalsyMutantNever(x) == FALSE

Falsy(x) == x = Undefined \/ x = 0

(***************************************************************************)
(* Identifiers.  The identifiers of the model and, for each, what the      *)
(* patterns of validateId look at: the text before the suffix, the number  *)
(* of suffix characters and whether all of them are alphanumeric.          *)
(***************************************************************************)
Usr1 == "usr_a1b2c3d4"
Usr2 == "usr_2758f8dd"
Act1 == "act_e5f6g7h8"
Act2 == "act_a632ae7b"
\* 20 alphanumeric characters, no prefix (the legacy format)
Legacy1 == "k3j9x0q2m4n8b1v7c5z6"
\* usr_ followed by 8 characters, one of them not alphanumeric
BadUsr == "usr_a1b2-3d4"
NoId == ""

IdShape ==
    (Usr1 :> <<"usr_", 8, TRUE>>) @@ (Usr2 :> <<"usr_", 8, TRUE>>)
 @@ (Act1 :> <<"act_", 8, TRUE>>) @@ (Act2 :> <<"act_", 8, TRUE>>)
 @@ (Legacy1 :> <<"", 20, TRUE>>) @@ (BadUsr :> <<"usr_", 8, FALSE>>)

\* the patterns of validateId: prefix and suffix length
IdPatterns ==
    [user |-> <<"usr_", 8>>, event |-> <<"evt_", 8>>,
     activity |-> <<"act_", 8>>, share |-> <<"sh_", 16>>]

\* /^<prefix>[a-zA-Z0-9]{n}$/.test(id)
TestPattern(pat, id) ==
    IdShape[id][1] = pat[1] /\ IdShape[id][2] = pat[2] /\ IdShape[id][3]

\* validateId(id) with type = 'any': some pattern matches
validateId(id) == \E k \in DOMAIN IdPatterns : TestPattern(IdPatterns[k], id)

\* LiveTracker.validateIds of the live map page: both ids of 20 alphanumeric
\* characters, or both with the prefix usr_, act_ or evt_ and 8
validateIds(userId, activityId) ==
    \/ /\ TestPattern(<<"", 20>>, userId)
       /\ TestPattern(<<"", 20>>, activityId)
    \/ /\ \E prefix \in {"usr_", "act_", "evt_"} :
            TestPattern(<<prefix, 8>>, userId)
       /\ \E prefix \in {"usr_", "act_", "evt_"} :
            TestPattern(<<prefix, 8>>, activityId)

\* the _id validators of userSchema and activitySchema
UserIdValid(id) == TestPattern(IdPatterns.user, id)
ActivityIdValid(id) == TestPattern(IdPatterns.activity, id)

(***************************************************************************)
(* Positions, in 1e-4 degrees, and calculateDistance.  The haversine       *)
(* formula of calculateDistance is evaluated on the positions of the model *)
(* and rounded to metres.                                                  *)
(***************************************************************************)
P1 == <<525163, 133777>>
P2 == <<525173, 133787>>
P3 == <<525183, 133797>>
\* north of the Berlin bounding box
POut == <<526000, 133777>>
\* on the equator and on the prime meridian
PEquator == <<0, 133777>>
PMeridian == <<525163, 0>>
\* no position
NoLocation == <<Undefined, Undefined>>

HaversineMeters ==
    (<<P1, P1>> :> 0)      @@ (<<P1, P2>> :> 130)   @@ (<<P1, P3>> :> 260)
 @@ (<<P1, POut>> :> 9307) @@ (<<P2, P1>> :> 130)   @@ (<<P2, P2>> :> 0)
 @@ (<<P2, P3>> :> 130)    @@ (<<P2, POut>> :> 9196) @@ (<<P3, P1>> :> 260)
 @@ (<<P3, P2>> :> 130)    @@ (<<P3, P3>> :> 0)     @@ (<<P3, POut>> :> 9086)
 @@ (<<POut, P1>> :> 9307) @@ (<<POut, P2>> :> 9196) @@ (<<POut, P3>> :> 9086)
 @@ (<<POut, POut>> :> 0)
 @@ (<<P1, PEquator>> :> 5839546)        @@ (<<PEquator, P1>> :> 5839546)
 @@ (<<P1, PMeridian>> :> 903920)        @@ (<<PMeridian, P1>> :> 903920)
 @@ (<<PEquator, PMeridian>> :> 5971084) @@ (<<PMeridian, PEquator>> :> 5971084)
 @@ (<<PEquator, PEquator>> :> 0)        @@ (<<PMeridian, PMeridian>> :> 0)

\* with a coordinate that is undefined every term of the formula is NaN
calculateDistance(lat1, lon1, lat2, lon2) ==
    IF Undefined \in {lat1, lon1, lat2, lon2} THEN NaN
    ELSE HaversineMeters[<<<<lat1, lon1>>, <<lat2, lon2>>>>]

\* A number that a division gives is kept as <<numerator, denominator>>,
\* the denominator positive; 0 is <<0, 1>>.
\* calculatePace: 0 without a distance, else timeSeconds / distanceKm with
\* distanceKm = distanceMeters / 1000
calculatePace(timeSeconds, distanceMeters) ==
    IF distanceMeters <= 0 THEN <<0, 1>>
    ELSE <<timeSeconds * 1000, distanceMeters>>

\* formatTime: the numbers between the colons of the string, the hours left
\* out when they are 0; the seconds keep the fraction of totalSeconds
formatTime(totalSeconds) ==
    LET n == totalSeconds[1]
        d == totalSeconds[2]
        hours == n \div (3600 * d)
        minutes == (n % (3600 * d)) \div (60 * d)
        seconds == <<n % (60 * d), d>>
    IN  IF hours > 0 THEN <<hours, minutes, seconds>>
        ELSE <<minutes, seconds>>

\* getBerlinMarathonBounds(), in 1e-4 degrees
getBerlinMarathonBounds ==
    [minLat |-> 524800, maxLat |-> 525500, minLng |-> 132500,
     maxLng |-> 134500]

isLocationWithinBoundsMutantAlways(lat, lng, bounds) == TRUE

isLocationWithinBounds(lat, lng, bounds) ==
    /\ lat >= bounds.minLat
    /\ lat <= bounds.maxLat
    /\ lng >= bounds.minLng
    /\ lng <= bounds.maxLng

(***************************************************************************)
(* State.                                                                  *)
(***************************************************************************)
VARIABLES
    now,         \* the server clock, in milliseconds
    nReq,        \* number of HTTP requests received so far
    users,       \* User collection: the set of _id
    events,      \* Event collection, in insertion order
    activities,  \* Activity collection: _id -> document, for the _id it holds
    pings,       \* LocationPing collection, in insertion order
    cheers,      \* Cheer collection, in insertion order
    connected,   \* the connected sockets
    rooms,       \* socket -> the rooms it has joined
    emitted,     \* the events emitted so far, each with the sockets it went to
    req,         \* client -> its request in flight (handler position and locals)
    resp,        \* client -> the last response it received
    publicIP,    \* the public IP address of the machine (what api.ipify.org says)
    ipCache,     \* the ip of .ip-cache.json
    accessList,  \* the IP access list of the Atlas project
    credentials, \* MONGODB_ATLAS_API_KEY and MONGODB_ATLAS_PROJECT_ID are set
    lastCheck,   \* the last call of checkAndUpdateIP: what it did and returned
    device,      \* the runner's device: its position in the poll and announce loop
    page         \* the live map page of a spectator: its message list

vars == <<now, nReq, users, events, activities, pings, cheers, connected, rooms,
          emitted, req, resp, publicIP, ipCache, accessList, credentials,
          lastCheck, device, page>>

store == <<users, events, activities, pings, cheers>>
sockets == <<connected, rooms>>
ipManager == <<publicIP, ipCache, accessList, credentials, lastCheck>>

Clients == {1, 2}
Sockets == {"s1", "s2"}

NoActivity ==
    [exists |-> FALSE, runnerId |-> NoId, eventId |-> 0, status |-> "none",
     startedAt |-> Undefined]

\* Activity.findById(id): the document, or NoActivity for null
ActivityDoc(id) ==
    IF id \in DOMAIN activities THEN activities[id] ELSE NoActivity

\* no request in flight
IdleReq == [pc |-> "idle"]

\* no IP address: no cache file, no address detected
NoIP == ""

\* checkAndUpdateIP has not been called
NoCheck == [report |-> "none", result |-> FALSE, ip |-> NoIP, atlasCalls |-> 0]

\* the IP manager of a server that does not run it (it runs in development
\* environments only)
IPManagerOff ==
    /\ publicIP = NoIP
    /\ ipCache = NoIP
    /\ accessList = {}
    /\ credentials = FALSE
    /\ lastCheck = NoCheck

\* no runner's device polls the mailbox
DeviceOff == [pc |-> "off", queue |-> <<>>, returned |-> <<>>]

\* the live map page before it has loaded or received a message: the items
\* of its message list, first at the top, and the number of events of the
\* server it has seen
NoPage == [items |-> <<>>, seen |-> 0]

\* no response yet
NoResp == [op |-> "none", status |-> 0]

\* a response: the operation, the HTTP status and the identifiers of the URL
Response(op, status, runnerId, activityId) ==
    [op |-> op, status |-> status, runnerId |-> runnerId,
     activityId |-> activityId]

(***************************************************************************)
(* The store as the server is started on an empty database.                *)
(***************************************************************************)
InitEmpty ==
    /\ now = 0
    /\ nReq = 0
    /\ users = {}
    /\ events = <<>>
    /\ activities = <<>>
    /\ pings = <<>>
    /\ cheers = <<>>
    /\ connected = {}
    /\ rooms = [s \in Sockets |-> {}]
    /\ emitted = <<>>
    /\ req = [p \in Clients |-> IdleReq]
    /\ resp = [p \in Clients |-> NoResp]
    /\ IPManagerOff
    /\ device = DeviceOff
    /\ page = NoPage

\* time passes
Tick ==
    /\ now < MaxTime
    /\ now' = now + 1
    /\ UNCHANGED <<ipManager, device, page, nReq, store, sockets, emitted, req, resp>>

(***************************************************************************)
(* Broadcasting: io.to(room).emit(kind, payload).  The room of every emit  *)
(* of the server is `${runnerId}-${activityId}` of the request.            *)
(***************************************************************************)
RoomOf(runnerId, activityId) == <<runnerId, activityId>>

MembersMutantEveryone(room) == connected

Members(room) == {s \in connected : room \in rooms[s]}

Emit(kind, runnerId, activityId, ref) ==
    Append(emitted,
           [kind |-> kind, runnerId |-> runnerId, activityId |-> activityId,
            to |-> Members(RoomOf(runnerId, activityId)), ref |-> ref])

\* await of a store operation inside try { } catch: a rejected promise throws
\* into the catch block, which answers 500
ThrowsMutantNotAwaited(ok) == FALSE

Throws(ok) == ~ok

\* the handler answers and ends
Finish(p, r) ==
    /\ req' = [req EXCEPT ![p] = IdleReq]
    /\ resp' = [resp EXCEPT ![p] = r]

(***************************************************************************)
(* POST /api/runner/:runnerId/activity/:activityId/location                *)
(***************************************************************************)
\* The fields locationPingSchema declares; mongoose (strict) saves no other
LocationPingFields ==
    {"meta", "ts", "loc", "speedMps", "elevM", "battery", "accuracy",
     "heading", "heartRate", "cadence"}

\* new LocationPing({...}): the document as the schema casts it
LocationPing(activityId, runnerId, ts, lat, lng, distance) ==
    [activityId |-> activityId, runnerId |-> runnerId, ts |-> ts,
     lat |-> lat, lng |-> lng,
     distance |-> IF "distance" \in LocationPingFields
                  THEN distance ELSE Undefined]

\* LocationPing.findOne({meta.activityId, meta.runnerId}, {}, {sort: {ts: -1}})
\* on the collection docs: the documents the query may return (0: null);
\* which of several documents of the same ts comes first is not specified
FindLatestPing(docs, activityId, runnerId) ==
    LET match == {i \in 1..Len(docs) :
                    /\ docs[i].activityId = activityId
                    /\ docs[i].runnerId = runnerId}
    IN  IF match = {} THEN {0}
        ELSE {i \in match : \A j \in match : docs[j].ts <= docs[i].ts}

\* lines 718-726, previousLocation being docs[prevId] (null if prevId = 0)
CumulativeDistance(docs, prevId, lat, lng) ==
    IF prevId = 0 THEN 0
    ELSE LET distance ==
                 calculateDistance(docs[prevId].lat, docs[prevId].lng, lat, lng)
         IN  IF distance = NaN THEN NaN
             ELSE OrZero(docs[prevId].distance) + distance

\* the checks of lines 697-703, the bounds check of lines 705-709, which
\* writes a warning to the log (warned) and goes on, and the findOne of
\* lines 712-716 with the distance of lines 718-726
IngestFindPrev(p, runnerId, activityId, lat, lng, ok) ==
    /\ req[p].pc = "idle"
    /\ nReq < MaxRequests
    /\ nReq' = nReq + 1
    /\ UNCHANGED <<ipManager, device, page, now, store, sockets, emitted>>
    /\ IF ~validateId(runnerId) \/ ~validateId(activityId)
       THEN Finish(p, Response("ingest", 400, runnerId, activityId))
       ELSE IF Falsy(lat) \/ Falsy(lng)
       THEN Finish(p, Response("ingest", 400, runnerId, activityId))
       ELSE IF Throws(ok)
       THEN Finish(p, Response("ingest", 500, runnerId, activityId))
       ELSE \E prevId \in FindLatestPing(pings, activityId, runnerId) :
              /\ req' = [req EXCEPT ![p] =
                           [pc |-> "ingest.save", runnerId |-> runnerId,
                            activityId |-> activityId, lat |-> lat, lng |-> lng,
                            distance |-> CumulativeDistance(pings, prevId, lat, lng),
                            ts |-> now, id |-> 0,
                            warned |-> ~isLocationWithinBounds(
                                           lat, lng, getBerlinMarathonBounds)]]
              /\ UNCHANGED resp

IngestSave(p, ok) ==
    /\ req[p].pc = "ingest.save"
    /\ UNCHANGED <<ipManager, device, page, now, nReq, users, events, activities, cheers, sockets, emitted>>
    /\ pings' = IF ok
                THEN Append(pings,
                            LocationPing(req[p].activityId, req[p].runnerId,
                                         req[p].ts, req[p].lat, req[p].lng,
                                         req[p].distance))
                ELSE pings
    /\ IF Throws(ok)
       THEN Finish(p, Response("ingest", 500, req[p].runnerId, req[p].activityId))
       ELSE /\ req' = [req EXCEPT ![p].pc = "ingest.stats",
                                  ![p].id = Len(pings) + 1]
            /\ UNCHANGED resp

\* the line of lines 753-760 that the handler writes to the log for the
\* activity it found and the cumulative distance of the request; the clock
\* of the model counts seconds
RaceStats(activity, cumulativeDistance) ==
    IF activity.exists /\ activity.startedAt # Undefined
    THEN [logged |-> TRUE,
          distance |-> cumulativeDistance,
          elapsedTime |-> now - activity.startedAt,
          currentPace |-> calculatePace(now - activity.startedAt,
                                        cumulativeDistance * 1000)]
    ELSE [logged |-> FALSE]

\* Activity.findById (the race statistics, RaceStats, are only logged), then
\* the emit and the response
IngestStats(p, ok) ==
    /\ req[p].pc = "ingest.stats"
    /\ UNCHANGED <<ipManager, device, page, now, nReq, store, sockets>>
    /\ IF Throws(ok)
       THEN /\ Finish(p, Response("ingest", 500, req[p].runnerId, req[p].activityId))
            /\ UNCHANGED emitted
       ELSE /\ emitted' = Emit("location-update", req[p].runnerId,
                               req[p].activityId, req[p].id)
            /\ Finish(p, [distance |-> req[p].distance, id |-> req[p].id]
                          @@ Response("ingest", 200, req[p].runnerId,
                                      req[p].activityId))

(***************************************************************************)
(* POST /api/runner/:runnerId/activity/:activityId/start                   *)
(***************************************************************************)
\* eventSchema.type: the values the enum accepts
EventTypeEnum == {"marathon", "half-marathon", "10k", "5k", "ultra", "other"}

\* /berlin.*marathon/i.test(name), on the event names of the model
MatchesBerlinMarathon(name) == name \in {"Berlin Marathon 2025"}

\* startLocation && startLocation.lat && startLocation.lng
HasStartLocation(loc) == ~Falsy(loc[1]) /\ ~Falsy(loc[2])

\* the await that follows the user lookup and provisioning (lines 484-607)
AfterUser(activityFound, eventName) ==
    IF activityFound THEN "start.findEvent"
    ELSE IF eventName # "" /\ eventName # "Custom Run"
    THEN "start.saveCustomEvent"
    ELSE "start.findDefaultEvent"

StartError(p) ==
    Finish(p, Response("start", 500, req[p].runnerId, req[p].activityId))

\* the response of lines 652-680, with the event it names; provisioned tells
\* whether this call created the activity
StartOk(p) ==
    Finish(p, [eventId |-> req[p].eventId,
               provisioned |-> ~req[p].activityFound,
               startLocation |-> req[p].startLocation]
              @@ Response("start", 200, req[p].runnerId, req[p].activityId))

StartFindUser(p, runnerId, activityId, startLocation, eventName, eventType, ok) ==
    /\ req[p].pc = "idle"
    /\ nReq < MaxRequests
    /\ nReq' = nReq + 1
    /\ UNCHANGED <<ipManager, device, page, now, store, sockets, emitted>>
    /\ IF ~validateId(runnerId) \/ ~validateId(activityId)
       THEN Finish(p, Response("start", 400, runnerId, activityId))
       ELSE IF Throws(ok)
       THEN Finish(p, Response("start", 500, runnerId, activityId))
       ELSE /\ req' = [req EXCEPT ![p] =
                         [pc |-> "start.findActivity", runnerId |-> runnerId,
                          activityId |-> activityId,
                          startLocation |-> startLocation,
                          eventName |-> eventName, eventType |-> eventType,
                          userFound |-> runnerId \in users,
                          activityFound |-> FALSE, eventId |-> 0,
                          startedAt |-> Undefined, ts |-> Undefined]]
            /\ UNCHANGED resp

StartFindActivity(p, ok) ==
    /\ req[p].pc = "start.findActivity"
    /\ UNCHANGED <<ipManager, device, page, now, nReq, store, sockets, emitted>>
    /\ IF Throws(ok) THEN StartError(p)
       ELSE LET found == ActivityDoc(req[p].activityId).exists
            IN  /\ req' = [req EXCEPT
                     ![p].activityFound = found,
                     ![p].eventId = ActivityDoc(req[p].activityId).eventId,
                     ![p].pc = IF ~req[p].userFound THEN "start.saveUser"
                               ELSE AfterUser(found, req[p].eventName)]
                /\ UNCHANGED resp

\* user.save() of a new document: the _id validator, then the insert, which
\* the unique index on _id rejects if the runner exists by now
StartSaveUser(p, ok) ==
    /\ req[p].pc = "start.saveUser"
    /\ UNCHANGED <<ipManager, device, page, now, nReq, events, activities, pings, cheers, sockets, emitted>>
    /\ LET saved == /\ ok
                    /\ UserIdValid(req[p].runnerId)
                    /\ req[p].runnerId \notin users
       IN  /\ users' = IF saved THEN users \cup {req[p].runnerId} ELSE users
           /\ IF Throws(saved) THEN StartError(p)
              ELSE /\ req' = [req EXCEPT ![p].pc =
                                AfterUser(req[p].activityFound, req[p].eventName)]
                   /\ UNCHANGED resp

\* eventType || 'custom'
FinalEventType(eventType) == IF eventType = "" THEN "custom" ELSE eventType

\* new Event({...}) with a generated _id; the collection is only appended to
Event(name, type) == [id |-> Len(events) + 1, name |-> name, type |-> type]

\* event.save() of the custom event, lines 494-536: the enum validator of
\* type, then the insert; the inner catch throws again
StartSaveCustomEvent(p, ok) ==
    /\ req[p].pc = "start.saveCustomEvent"
    /\ UNCHANGED <<ipManager, device, page, now, nReq, users, activities, pings, cheers, sockets, emitted>>
    /\ LET saved == ok /\ FinalEventType(req[p].eventType) \in EventTypeEnum
       IN  /\ events' = IF saved
                        THEN Append(events,
                                    Event(req[p].eventName,
                                          FinalEventType(req[p].eventType)))
                        ELSE events
           /\ IF Throws(saved) THEN StartError(p)
              ELSE /\ req' = [req EXCEPT ![p].eventId = Len(events) + 1,
                                         ![p].pc = "start.saveActivity"]
                   /\ UNCHANGED resp

\* Event.findOne({name: /berlin.*marathon/i}), line 539
StartFindDefaultEvent(p, ok) ==
    /\ req[p].pc = "start.findDefaultEvent"
    /\ UNCHANGED <<ipManager, device, page, now, nReq, store, sockets, emitted>>
    /\ IF Throws(ok) THEN StartError(p)
       ELSE LET match == {i \in 1..Len(events) :
                            MatchesBerlinMarathon(events[i].name)}
            IN  /\ req' = [req EXCEPT
                     ![p].eventId =
                         IF match = {} THEN 0
                         ELSE CHOOSE i \in match : \A j \in match : i <= j,
                     ![p].pc = IF match = {} THEN "start.saveDefaultEvent"
                               ELSE "start.saveActivity"]
                /\ UNCHANGED resp

\* event.save() of the Berlin Marathon event, lines 542-577
StartSaveDefaultEvent(p, ok) ==
    /\ req[p].pc = "start.saveDefaultEvent"
    /\ UNCHANGED <<ipManager, device, page, now, nReq, users, activities, pings, cheers, sockets, emitted>>
    /\ events' = IF ok
                 THEN Append(events, Event("Berlin Marathon 2025", "marathon"))
                 ELSE events
    /\ IF Throws(ok) THEN StartError(p)
       ELSE /\ req' = [req EXCEPT ![p].eventId = Len(events) + 1,
                                  ![p].pc = "start.saveActivity"]
            /\ UNCHANGED resp

\* new Activity({... status: 'planned' ...}), lines 584-601
PlannedActivity(runnerId, eventId) ==
    [exists |-> TRUE, runnerId |-> runnerId, eventId |-> eventId,
     status |-> "planned", startedAt |-> Undefined]

\* activity.save() of the new document (line 602): the _id validator, then the
\* insert, which the unique index rejects if the activity exists by now; then
\* lines 610-612 set the local status and startedAt
StartSaveActivity(p, ok) ==
    /\ req[p].pc = "start.saveActivity"
    /\ UNCHANGED <<ipManager, device, page, now, nReq, users, events, pings, cheers, sockets, emitted>>
    /\ LET saved == /\ ok
                    /\ ActivityIdValid(req[p].activityId)
                    /\ ~ActivityDoc(req[p].activityId).exists
       IN  /\ activities' =
                  IF saved
                  THEN (req[p].activityId :>
                           PlannedActivity(req[p].runnerId, req[p].eventId))
                       @@ activities
                  ELSE activities
           /\ IF Throws(saved) THEN StartError(p)
              ELSE /\ req' = [req EXCEPT ![p].startedAt = now,
                                         ![p].pc = "start.activate"]
                   /\ UNCHANGED resp

\* Event.findById(activity.eventId) for an existing activity (line 606); then
\* lines 610-612
StartFindEvent(p, ok) ==
    /\ req[p].pc = "start.findEvent"
    /\ UNCHANGED <<ipManager, device, page, now, nReq, store, sockets, emitted>>
    /\ IF Throws(ok) THEN StartError(p)
       ELSE /\ req' = [req EXCEPT ![p].startedAt = now,
                                  ![p].pc = "start.activate"]
            /\ UNCHANGED resp

\* lines 610-611 as activity.save() writes them
ActivatedMutantKeepsPlanned(doc, startedAt) ==
    [doc EXCEPT !.startedAt = startedAt]

Activated(doc, startedAt) ==
    [doc EXCEPT !.status = "active", !.startedAt = startedAt]

\* activity.save() of line 613; without a start location the emit and the
\* response follow
StartActivate(p, ok) ==
    /\ req[p].pc = "start.activate"
    /\ UNCHANGED <<ipManager, device, page, now, nReq, users, events, pings, cheers, sockets>>
    /\ activities' =
           IF ok
           THEN (req[p].activityId :>
                    Activated(ActivityDoc(req[p].activityId), req[p].startedAt))
                @@ activities
           ELSE activities
    /\ IF Throws(ok) THEN StartError(p) /\ UNCHANGED emitted
       ELSE IF HasStartLocation(req[p].startLocation)
       THEN /\ req' = [req EXCEPT ![p].ts = now,
                                  ![p].pc = "start.saveLocation"]
            /\ UNCHANGED <<resp, emitted>>
       ELSE /\ emitted' = Emit("activity-started", req[p].runnerId,
                               req[p].activityId, 0)
            /\ StartOk(p)

\* location.save() of line 632, then the emit and the response
StartSaveLocation(p, ok) ==
    /\ req[p].pc = "start.saveLocation"
    /\ UNCHANGED <<ipManager, device, page, now, nReq, users, events, activities, cheers, sockets>>
    /\ pings' = IF ok
                THEN Append(pings,
                            LocationPing(req[p].activityId, req[p].runnerId,
                                         req[p].ts, req[p].startLocation[1],
                                         req[p].startLocation[2], Undefined))
                ELSE pings
    /\ IF Throws(ok) THEN StartError(p) /\ UNCHANGED emitted
       ELSE /\ emitted' = Emit("activity-started", req[p].runnerId,
                               req[p].activityId, 0)
            /\ StartOk(p)

\* the steps of a start request already received
StartStep(p, ok) ==
    \/ StartFindActivity(p, ok)
    \/ StartSaveUser(p, ok)
    \/ StartSaveCustomEvent(p, ok)
    \/ StartFindDefaultEvent(p, ok)
    \/ StartSaveDefaultEvent(p, ok)
    \/ StartSaveActivity(p, ok)
    \/ StartFindEvent(p, ok)
    \/ StartActivate(p, ok)
    \/ StartSaveLocation(p, ok)

(***************************************************************************)
(* sanitizeInput.  A text is the sequence of its characters.               *)
(***************************************************************************)
\* text.replace(/ch/g, rep)
RECURSIVE ReplaceAll(_, _, _)
ReplaceAll(text, ch, rep) ==
    IF text = <<>> THEN <<>>
    ELSE (IF Head(text) = ch THEN rep ELSE <<Head(text)>>)
         \o ReplaceAll(Tail(text), ch, rep)

Whitespace == {" "}

RECURSIVE TrimStart(_)
TrimStart(text) ==
    IF text # <<>> /\ Head(text) \in Whitespace THEN TrimStart(Tail(text))
    ELSE text

RECURSIVE TrimEnd(_)
TrimEnd(text) ==
    IF text # <<>> /\ text[Len(text)] \in Whitespace
    THEN TrimEnd(SubSeq(text, 1, Len(text) - 1))
    ELSE text

\* text.trim()
Trim(text) == TrimEnd(TrimStart(text))

sanitizeInputMutantTrimOnly(input) == Trim(input)

sanitizeInput(input) ==
    Trim(ReplaceAll(ReplaceAll(ReplaceAll(ReplaceAll(ReplaceAll(ReplaceAll(
        input,
        "&", <<"&", "a", "m", "p", ";">>),
        "<", <<"&", "l", "t", ";">>),
        ">", <<"&", "g", "t", ";">>),
        "\"", <<"&", "q", "u", "o", "t", ";">>),
        "'", <<"&", "#", "x", "2", "7", ";">>),
        "/", <<"&", "#", "x", "2", "F", ";">>))

(***************************************************************************)
(* POST /api/runner/:runnerId/activity/:activityId/messages                *)
(***************************************************************************)
NameMaxLength == 50
MessageMaxLength == 500

\* new Cheer({...}) with a generated _id: the trim setters of cheerSchema
Cheer(activityId, name, message, createdAt) ==
    [id |-> Len(cheers) + 1, activityId |-> activityId, name |-> Trim(name),
     message |-> Trim(message), createdAt |-> createdAt,
     deliveredAt |-> Undefined]

\* the validators of cheerSchema: required (an empty string fails it) and
\* maxlength
CheerValid(doc) ==
    /\ doc.name # <<>> /\ Len(doc.name) <= NameMaxLength
    /\ doc.message # <<>> /\ Len(doc.message) <= MessageMaxLength

\* lines 881-901: the checks and the new document; a missing field and an
\* empty string are both falsy
SendBegin(p, runnerId, activityId, sender, message) ==
    /\ req[p].pc = "idle"
    /\ nReq < MaxRequests
    /\ nReq' = nReq + 1
    /\ UNCHANGED <<ipManager, device, page, now, store, sockets, emitted>>
    /\ IF ~validateId(runnerId) \/ ~validateId(activityId)
       THEN Finish(p, Response("send", 400, runnerId, activityId))
       ELSE IF sender = <<>> \/ message = <<>>
       THEN Finish(p, Response("send", 400, runnerId, activityId))
       ELSE /\ req' = [req EXCEPT ![p] =
                         [pc |-> "send.save", runnerId |-> runnerId,
                          activityId |-> activityId,
                          name |-> sanitizeInput(sender),
                          message |-> sanitizeInput(message),
                          createdAt |-> now]]
            /\ UNCHANGED resp

\* newCheer.save() of line 903, then the emit and the response
SendSave(p, ok) ==
    /\ req[p].pc = "send.save"
    /\ UNCHANGED <<ipManager, device, page, now, nReq, users, events, activities, pings, sockets>>
    /\ LET doc == Cheer(req[p].activityId, req[p].name, req[p].message,
                        req[p].createdAt)
           saved == ok /\ CheerValid(doc)
       IN  /\ cheers' = IF saved THEN Append(cheers, doc) ELSE cheers
           /\ IF Throws(saved)
              THEN /\ Finish(p, Response("send", 500, req[p].runnerId,
                                         req[p].activityId))
                   /\ UNCHANGED emitted
              ELSE /\ emitted' = Emit("new-message", req[p].runnerId,
                                      req[p].activityId, doc.id)
                   /\ Finish(p, [messageId |-> doc.id, sender |-> doc.name,
                                 message |-> doc.message]
                                @@ Response("send", 200, req[p].runnerId,
                                            req[p].activityId))

(***************************************************************************)
(* POST .../messages/:messageId/announce                                   *)
(* Cheer.findOneAndUpdate({_id, activityId}, {deliveredAt: new Date()})    *)
(***************************************************************************)
\* the update {deliveredAt: new Date()} of lines 986-988
AnnounceUpdateMutantToggle(doc, at) ==
    [doc EXCEPT !.deliveredAt = IF @ = Undefined THEN at ELSE Undefined]

AnnounceUpdate(doc, at) == [doc EXCEPT !.deliveredAt = at]

\* the filter {_id: messageId, activityId} of line 985 matches a document
AnnounceFilterMutantIdOnly(messageId, activityId) ==
    messageId \in 1..Len(cheers)

AnnounceFilter(messageId, activityId) ==
    /\ messageId \in 1..Len(cheers)
    /\ cheers[messageId].activityId = activityId

Announce(p, runnerId, activityId, messageId, ok) ==
    /\ req[p].pc = "idle"
    /\ nReq < MaxRequests
    /\ nReq' = nReq + 1
    /\ req' = req
    /\ UNCHANGED <<ipManager, device, page, now, users, events, activities, pings, sockets, emitted>>
    /\ LET valid == validateId(runnerId) /\ validateId(activityId)
           match == AnnounceFilter(messageId, activityId)
       IN  /\ cheers' = IF valid /\ ok /\ match
                        THEN [cheers EXCEPT ![messageId] =
                                              AnnounceUpdate(@, now)]
                        ELSE cheers
           /\ resp' = [resp EXCEPT ![p] =
                 Response("announce",
                          IF ~valid THEN 400
                          ELSE IF Throws(ok) THEN 500
                          ELSE IF ~match THEN 404 ELSE 200,
                          runnerId, activityId)]

(***************************************************************************)
(* GET .../messages/unannounced                                            *)
(***************************************************************************)
UnannouncedLimit == 10

\* i comes before j in sort({createdAt: dir}); which of two documents of the
\* same createdAt comes first is not specified: tie = 1 keeps the insertion
\* order among them and tie = -1 reverses it
Before(i, j, dir, tie) ==
    \/ i = j
    \/ dir * cheers[i].createdAt < dir * cheers[j].createdAt
    \/ cheers[i].createdAt = cheers[j].createdAt /\ tie * i < tie * j

\* the documents S of Cheer, as .sort({createdAt: dir}) orders them: the
\* k-th is the document that k documents of S, itself included, do not
\* come after
SortByCreatedAt(S, dir, tie) ==
    [k \in 1..Cardinality(S) |->
        CHOOSE i \in S :
            Cardinality({j \in S : Before(j, i, dir, tie)}) = k]

\* .limit(n)
Limit(docs, n) == SubSeq(docs, 1, IF Len(docs) < n THEN Len(docs) ELSE n)

\* the filter {activityId, deliveredAt: {$exists: false}}
UnannouncedFilterMutantAll(doc, activityId) ==
    doc.activityId = activityId

UnannouncedFilter(doc, activityId) ==
    doc.activityId = activityId /\ doc.deliveredAt = Undefined

\* the _id of the documents the query of lines 1020-1025 returns
UnannouncedQuery(activityId, tie) ==
    Limit(SortByCreatedAt({i \in 1..Len(cheers) :
                             UnannouncedFilter(cheers[i], activityId)}, 1, tie),
          UnannouncedLimit)

Unannounced(p, runnerId, activityId, tie, ok) ==
    /\ req[p].pc = "idle"
    /\ nReq < MaxRequests
    /\ nReq' = nReq + 1
    /\ req' = req
    /\ UNCHANGED <<ipManager, device, page, now, store, sockets, emitted>>
    /\ resp' = [resp EXCEPT ![p] =
          IF ~validateId(runnerId) \/ ~validateId(activityId)
          THEN Response("unannounced", 400, runnerId, activityId)
          ELSE IF Throws(ok)
          THEN Response("unannounced", 500, runnerId, activityId)
          ELSE [messages |-> UnannouncedQuery(activityId, tie)]
               @@ Response("unannounced", 200, runnerId, activityId)]

(***************************************************************************)
(* The runner's device.  It polls GET .../messages/unannounced for its     *)
(* activity and then sends POST .../messages/:messageId/announce for each  *)
(* message of the answer, one after the other, before it polls again.      *)
(* Each request of the device is one step: the handler awaits one store    *)
(* operation.  returned lists the messages in the order the device got     *)
(* them first.                                                             *)
(***************************************************************************)
\* the elements of seq that are not in S, in their order
Without(seq, S) == SelectSeq(seq, LAMBDA m : m \notin S)

Range(seq) == {seq[k] : k \in 1..Len(seq)}

DevicePoll(runnerId, activityId, tie) ==
    /\ device.pc = "poll"
    /\ validateId(runnerId) /\ validateId(activityId)
    /\ LET messages == UnannouncedQuery(activityId, tie)
       IN  device' =
             [pc |-> IF messages = <<>> THEN "poll" ELSE "announce",
              queue |-> messages,
              returned |-> device.returned
                           \o Without(messages, Range(device.returned))]
    /\ UNCHANGED <<ipManager, page, now, nReq, store, sockets, emitted, req, resp>>

DeviceAnnounce(runnerId, activityId) ==
    /\ device.pc = "announce"
    /\ validateId(runnerId) /\ validateId(activityId)
    /\ LET messageId == Head(device.queue)
           match == AnnounceFilter(messageId, activityId)
       IN  /\ cheers' = IF match
                        THEN [cheers EXCEPT ![messageId] =
                                              AnnounceUpdate(@, now)]
                        ELSE cheers
           /\ device' = [device EXCEPT
                           !.queue = Tail(@),
                           !.pc = IF Tail(device.queue) = <<>> THEN "poll"
                                  ELSE "announce"]
    /\ UNCHANGED <<ipManager, page, now, nReq, users, events, activities,
                   pings, sockets, emitted, req, resp>>

(***************************************************************************)
(* GET /api/runner/:runnerId/activity/:activityId                          *)
(***************************************************************************)
GetError(p) ==
    Finish(p, Response("get", 500, req[p].runnerId, req[p].activityId))

\* the checks of lines 795-797, then Activity.findById of line 800
GetFindActivity(p, runnerId, activityId, ok) ==
    /\ req[p].pc = "idle"
    /\ nReq < MaxRequests
    /\ nReq' = nReq + 1
    /\ UNCHANGED <<ipManager, device, page, now, store, sockets, emitted>>
    /\ IF ~validateId(runnerId) \/ ~validateId(activityId)
       THEN Finish(p, Response("get", 400, runnerId, activityId))
       ELSE IF Throws(ok)
       THEN Finish(p, Response("get", 500, runnerId, activityId))
       ELSE /\ req' = [req EXCEPT ![p] =
                         [pc |-> "get.findUser", runnerId |-> runnerId,
                          activityId |-> activityId,
                          activity |-> ActivityDoc(activityId),
                          eventFound |-> FALSE]]
            /\ UNCHANGED resp

\* !activity || !user of line 803
NotFoundMutantActivityOnly(activity, runnerId) == ~activity.exists

NotFound(activity, runnerId) == ~activity.exists \/ runnerId \notin users

\* User.findById of line 801, then the 404 of lines 803-805
GetFindUser(p, ok) ==
    /\ req[p].pc = "get.findUser"
    /\ UNCHANGED <<ipManager, device, page, now, nReq, store, sockets, emitted>>
    /\ IF Throws(ok) THEN GetError(p)
       ELSE IF NotFound(req[p].activity, req[p].runnerId)
       THEN Finish(p, Response("get", 404, req[p].runnerId, req[p].activityId))
       ELSE /\ req' = [req EXCEPT ![p].pc = "get.findEvent"]
            /\ UNCHANGED resp

\* Event.findById(activity.eventId) of line 807
GetFindEvent(p, ok) ==
    /\ req[p].pc = "get.findEvent"
    /\ UNCHANGED <<ipManager, device, page, now, nReq, store, sockets, emitted>>
    /\ IF Throws(ok) THEN GetError(p)
       ELSE /\ req' = [req EXCEPT
                         ![p].eventFound =
                             req[p].activity.eventId \in 1..Len(events),
                         ![p].pc = "get.findLatest"]
            /\ UNCHANGED resp

\* LocationPing.findOne of lines 808-812, then the statistics and the
\* response of lines 818-866
GetFindLatest(p, ok) ==
    /\ req[p].pc = "get.findLatest"
    /\ UNCHANGED <<ipManager, device, page, now, nReq, store, sockets, emitted>>
    /\ IF Throws(ok) THEN GetError(p)
       ELSE \E last \in FindLatestPing(pings, req[p].activityId,
                                       req[p].runnerId) :
              Finish(p, [activityStatus |-> req[p].activity.status,
                         startTime |-> req[p].activity.startedAt,
                         eventFound |-> req[p].eventFound,
                         distance |->
                             IF req[p].activity.startedAt # Undefined
                                /\ last # 0
                             THEN OrZero(pings[last].distance) ELSE 0,
                         pace |->
                             IF req[p].activity.startedAt # Undefined
                                /\ last # 0
                             THEN formatTime(calculatePace(
                                      now - req[p].activity.startedAt,
                                      OrZero(pings[last].distance) * 1000))
                             ELSE <<0, <<0, 1>>>>,
                         lastLocation |->
                             IF last = 0 THEN NoLocation
                             ELSE <<pings[last].lat, pings[last].lng>>]
                        @@ Response("get", 200, req[p].runnerId,
                                    req[p].activityId))

(***************************************************************************)
(* GET /api/runner/:runnerId/activity/:activityId/messages                 *)
(***************************************************************************)
DefaultLimit == 50
DefaultOffset == 0

\* .skip(n)
Skip(docs, n) == SubSeq(docs, n + 1, Len(docs))

\* .limit(n) of a find: MongoDB takes a limit of 0 as no limit
FindLimit(docs, n) == IF n = 0 THEN docs ELSE Limit(docs, n)

\* the _id of the documents the query of lines 947-953 returns: a find
\* applies sort, then skip, then limit
ListQuery(activityId, limit, offset, tie) ==
    FindLimit(Skip(SortByCreatedAt({i \in 1..Len(cheers) :
                                      cheers[i].activityId = activityId},
                                   0 - 1, tie),
                   offset),
              limit)

List(p, runnerId, activityId, limit, offset, tie, ok) ==
    /\ req[p].pc = "idle"
    /\ nReq < MaxRequests
    /\ nReq' = nReq + 1
    /\ req' = req
    /\ UNCHANGED <<ipManager, device, page, now, store, sockets, emitted>>
    /\ resp' = [resp EXCEPT ![p] =
          IF ~validateId(runnerId) \/ ~validateId(activityId)
          THEN Response("list", 400, runnerId, activityId)
          ELSE IF Throws(ok)
          THEN Response("list", 500, runnerId, activityId)
          ELSE [messages |-> ListQuery(activityId, limit, offset, tie),
                limit |-> limit, offset |-> offset]
               @@ Response("list", 200, runnerId, activityId)]

(***************************************************************************)
(* Socket.IO, lines 183-205.  A socket that disconnects leaves its rooms.  *)
(***************************************************************************)
Connect(s) ==
    /\ s \notin connected
    /\ connected' = connected \cup {s}
    /\ UNCHANGED <<ipManager, device, page, now, nReq, store, rooms, emitted, req, resp>>

JoinTracking(s, runnerId, activityId) ==
    /\ s \in connected
    /\ rooms' = IF validateId(runnerId) /\ validateId(activityId)
                THEN [rooms EXCEPT ![s] = @ \cup {RoomOf(runnerId, activityId)}]
                ELSE rooms
    /\ UNCHANGED <<ipManager, device, page, now, nReq, store, connected, emitted, req, resp>>

LeaveTracking(s, runnerId, activityId) ==
    /\ s \in connected
    /\ rooms' = [rooms EXCEPT ![s] = @ \ {RoomOf(runnerId, activityId)}]
    /\ UNCHANGED <<ipManager, device, page, now, nReq, store, connected, emitted, req, resp>>

Disconnect(s) ==
    /\ s \in connected
    /\ connected' = connected \ {s}
    /\ rooms' = [rooms EXCEPT ![s] = {}]
    /\ UNCHANGED <<ipManager, device, page, now, nReq, store, emitted, req, resp>>

(***************************************************************************)
(* The live map page of a spectator: LiveTracker of the page script.  The  *)
(* page opens a socket, joins the room of its runner and activity, loads   *)
(* the messages with GET .../messages?limit=20 and shows them, and adds    *)
(* every message a new-message event brings.  An item of the message list  *)
(* is the two texts the page writes into the HTML of the item.             *)
(***************************************************************************)
PageSocket == "s1"
PageLimit == 20
PageItems == 10

\* the character references in the texts of the model and the character the
\* HTML parser replaces each with
CharacterReferences ==
    {<<<<"&", "a", "m", "p", ";">>, "&">>,
     <<<<"&", "l", "t", ";">>, "<">>,
     <<<<"&", "g", "t", ";">>, ">">>,
     <<<<"&", "q", "u", "o", "t", ";">>, "\"">>,
     <<<<"&", "#", "x", "2", "7", ";">>, "'">>,
     <<<<"&", "#", "x", "2", "F", ";">>, "/">>}

\* the text the parser makes of the content of a textarea: every character
\* reference replaced, once, by its character
RECURSIVE DecodeEntities(_)
DecodeEntities(text) ==
    IF text = <<>> THEN <<>>
    ELSE LET refs == {r \in CharacterReferences :
                        /\ Len(r[1]) <= Len(text)
                        /\ SubSeq(text, 1, Len(r[1])) = r[1]}
         IN  IF refs = {}
             THEN <<Head(text)>> \o DecodeEntities(Tail(text))
             ELSE LET r == CHOOSE r \in refs : TRUE
                  IN  <<r[2]>> \o DecodeEntities(SubSeq(text, Len(r[1]) + 1,
                                                        Len(text)))

\* preserveEmojis(text): textarea.innerHTML = text; return textarea.value
preserveEmojis(text) == DecodeEntities(text)

\* the item of the message list for a message: the texts of the template
\* of displayMessages and addNewMessage
MessageItem(sender, message) ==
    [sender |-> preserveEmojis(sender), message |-> preserveEmojis(message)]

\* messages.slice(-n)
Slice(messages, n) ==
    SubSeq(messages, IF Len(messages) > n THEN Len(messages) - n + 1 ELSE 1,
           Len(messages))

\* messages.reverse()
Reverse(messages) ==
    [k \in 1..Len(messages) |-> messages[Len(messages) + 1 - k]]

\* displayMessages(messages), messages being the _id of the messages of the
\* answer: the items of the list
displayMessages(messages) ==
    LET recentMessages == Reverse(Slice(messages, PageItems))
    IN  [k \in 1..Len(recentMessages) |->
            MessageItem(cheers[recentMessages[k]].name,
                        cheers[recentMessages[k]].message)]

\* addNewMessage(message): the new item at the top, the last item removed
\* if there are more than 10
addNewMessage(items, messageId) ==
    LET added == <<MessageItem(cheers[messageId].name,
                               cheers[messageId].message)>> \o items
    IN  IF Len(added) > PageItems THEN SubSeq(added, 1, Len(added) - 1)
        ELSE added

\* loadMessages(): the request to the list route and displayMessages of its
\* answer, or of no message if the answer is an error
PageLoadMessages(runnerId, activityId, tie) ==
    /\ page' = [page EXCEPT !.items =
                   IF validateId(runnerId) /\ validateId(activityId)
                   THEN displayMessages(ListQuery(activityId, PageLimit,
                                                  DefaultOffset, tie))
                   ELSE <<>>]
    /\ page'.items # page.items
    /\ UNCHANGED <<ipManager, device, now, nReq, store, sockets, emitted, req,
                   resp>>

\* the page receives the next event of the server: a new-message event
\* that was emitted to its socket is shown
PageOnEvent ==
    /\ page.seen < Len(emitted)
    /\ LET e == emitted[page.seen + 1]
       IN  page' = [items |-> IF e.kind = "new-message" /\ PageSocket \in e.to
                              THEN addNewMessage(page.items, e.ref)
                              ELSE page.items,
                    seen |-> page.seen + 1]
    /\ UNCHANGED <<ipManager, device, now, nReq, store, sockets, emitted, req,
                   resp>>

(***************************************************************************)
(* AtlasIPManager of src/db/atlas-ip-manager.js.  checkAndUpdateIP runs    *)
(* once before the server connects and then every five minutes; its        *)
(* requests time out after 10 and 15 seconds, so two calls never overlap   *)
(* and a call is one step.  ipOk, listOk and addOk are the outcomes of the *)
(* requests to api.ipify.org and to the Atlas API.                         *)
(***************************************************************************)
IPs == {"203.0.113.7", "198.51.100.23", "192.0.2.44"}

\* hasIPChanged(): getCurrentIP, loadCachedIP and the comparison
hasIPChanged(ipOk) ==
    IF ~ipOk THEN [changed |-> FALSE, error |-> TRUE, ip |-> NoIP]
    ELSE IF ipCache = NoIP \/ ipCache # publicIP
    THEN [changed |-> TRUE, error |-> FALSE, ip |-> publicIP]
    ELSE [changed |-> FALSE, error |-> FALSE, ip |-> publicIP]

\* updateAtlasWhitelist(ip): what it returns, the number of requests it
\* sends to the Atlas API, and the access list and the cache file after it
updateAtlasWhitelist(ip, listOk, addOk) ==
    IF ~credentials
    THEN [success |-> FALSE, atlasCalls |-> 0, accessList |-> accessList,
          ipCache |-> ipCache]
    ELSE IF ~listOk
    THEN [success |-> FALSE, atlasCalls |-> 1, accessList |-> accessList,
          ipCache |-> ipCache]
    ELSE IF ip \in accessList
    THEN [success |-> TRUE, atlasCalls |-> 1, accessList |-> accessList,
          ipCache |-> ipCache]
    ELSE IF addOk
    THEN [success |-> TRUE, atlasCalls |-> 2,
          accessList |-> accessList \cup {ip}, ipCache |-> ip]
    ELSE [success |-> FALSE, atlasCalls |-> 2, accessList |-> accessList,
          ipCache |-> ipCache]

checkAndUpdateIP(ipOk, listOk, addOk) ==
    LET ipCheck == hasIPChanged(ipOk)
        update == updateAtlasWhitelist(ipCheck.ip, listOk, addOk)
    IN  /\ publicIP # NoIP
        /\ UNCHANGED <<now, nReq, store, sockets, emitted, req, resp, publicIP,
                       credentials, device, page>>
        /\ IF ipCheck.changed /\ ipCheck.ip # NoIP
           THEN /\ accessList' = update.accessList
                /\ ipCache' = update.ipCache
                /\ lastCheck' =
                      [report |-> IF update.success THEN "updated" ELSE "failed",
                       result |-> update.success, ip |-> ipCheck.ip,
                       atlasCalls |-> update.atlasCalls]
           ELSE /\ UNCHANGED <<accessList, ipCache>>
                /\ lastCheck' =
                      [report |-> IF ipCheck.error THEN "error" ELSE "unchanged",
                       result |-> ~ipCheck.error, ip |-> ipCheck.ip,
                       atlasCalls |-> 0]

\* the provider assigns the machine another public address
ChangePublicIP(ip) ==
    /\ publicIP # NoIP
    /\ ip # publicIP
    /\ publicIP' = ip
    /\ UNCHANGED <<now, nReq, store, sockets, emitted, req, resp, ipCache,
                   accessList, credentials, lastCheck, device, page>>

(***************************************************************************)
(* Spec: one client sends start and location requests one after the other  *)
(* to a server started on an empty database.                               *)
(***************************************************************************)
\* the event descriptors of the requests: none, or a name with its type
Descriptors == {<<"", "">>, <<"City 5k", "5k">>}

Next ==
    \/ Tick
    \/ \E r \in {Usr1, Act1}, a \in {Act1}, loc \in {NoLocation, P1},
          ev \in Descriptors :
         StartFindUser(1, r, a, loc, ev[1], ev[2], TRUE)
    \/ StartStep(1, TRUE)
    \/ \E r \in {Usr1}, a \in {Act1}, pt \in {P1, P2, P3} :
         IngestFindPrev(1, r, a, pt[1], pt[2], TRUE)
    \/ IngestSave(1, TRUE)
    \/ IngestStats(1, TRUE)

Spec == InitEmpty /\ [][Next]_vars

(***************************************************************************)
(* Claims checked under Spec.                                              *)
(***************************************************************************)
\* the samples of an activity, in the order they were persisted
SamplesOf(activityId) ==
    SelectSeq(pings, LAMBDA d : d.activityId = activityId)

\* the samples were taken at strictly increasing times by one runner
InOrder(samples) ==
    \A i \in 1..Len(samples) - 1 :
        /\ samples[i].ts < samples[i + 1].ts
        /\ samples[i].runnerId = samples[i + 1].runnerId

\* the sum of the haversine distances between consecutive samples
RECURSIVE PathLength(_)
PathLength(samples) ==
    IF Len(samples) < 2 THEN 0
    ELSE PathLength(SubSeq(samples, 1, Len(samples) - 1))
         + calculateDistance(samples[Len(samples) - 1].lat,
                             samples[Len(samples) - 1].lng,
                             samples[Len(samples)].lat,
                             samples[Len(samples)].lng)

\* C1: start() on an activity that is already active leaves its status and
\* its startedAt as they are.
C1_StartAgainKeepsStartedAt ==
    [][\A a \in DOMAIN activities :
         activities[a].status = "active"
         => /\ activities'[a].status = activities[a].status
            /\ activities'[a].startedAt = activities[a].startedAt]_vars

\* C2: the cumulative distance a location request returns is the sum of the
\* haversine distances between the consecutive samples of the activity
\* accepted so far (samples taken in order, one request at a time).
C2_DistanceIsPathLength ==
    \A p \in Clients :
        (/\ resp[p].op = "ingest"
         /\ resp[p].status = 200
         /\ \A q \in Clients : req[q].pc = "idle"
         /\ InOrder(SamplesOf(resp[p].activityId)))
        => resp[p].distance = PathLength(SamplesOf(resp[p].activityId))

\* C3: of two successive accepted location requests of an activity the second
\* returns a cumulative distance that is not below the first, and none is
\* negative.
C3_DistanceNeverDecreases ==
    [][\A p \in Clients :
         (/\ resp[p].op = "ingest" /\ resp[p].status = 200
          /\ resp'[p].op = "ingest" /\ resp'[p].status = 200
          /\ resp'[p].activityId = resp[p].activityId
          /\ InOrder(SamplesOf(resp[p].activityId)'))
         => /\ resp'[p].distance >= resp[p].distance
            /\ resp'[p].distance >= 0]_vars

\* C10: start() of an activity that does not exist never answers 404, and
\* when it answers 200 the runner, the event and the activity exist and the
\* activity is active with startedAt set.
C10_StartProvisions ==
    \A p \in Clients :
        resp[p].op = "start"
        => /\ resp[p].status # 404
           /\ (resp[p].status = 200 /\ resp[p].provisioned)
              => /\ resp[p].runnerId \in users
                 /\ resp[p].eventId \in 1..Len(events)
                 /\ ActivityDoc(resp[p].activityId).exists
                 /\ ActivityDoc(resp[p].activityId).eventId = resp[p].eventId
                 /\ ActivityDoc(resp[p].activityId).runnerId = resp[p].runnerId
                 /\ ActivityDoc(resp[p].activityId).status = "active"
                 /\ ActivityDoc(resp[p].activityId).startedAt # Undefined

C10_Witness ==
    \E p \in Clients :
        /\ resp[p].op = "start"
        /\ resp[p].status = 200
        /\ resp[p].provisioned

(***************************************************************************)
(* SpecRace: two clients send location requests of one activity at the     *)
(* same time; the steps of the two handlers interleave at their awaits.    *)
(***************************************************************************)
NextRace ==
    \/ Tick
    \/ \E p \in Clients, pt \in {P1, P2, P3} :
         IngestFindPrev(p, Usr1, Act1, pt[1], pt[2], TRUE)
    \/ \E p \in Clients : IngestSave(p, TRUE)
    \/ \E p \in Clients : IngestStats(p, TRUE)

SpecRace == InitEmpty /\ [][NextRace]_vars

\* the cumulative distances a location request for sample s can return when
\* the handler runs alone on the collection docs
SerialDistances(docs, s) ==
    {CumulativeDistance(docs, prevId, s.lat, s.lng) :
        prevId \in FindLatestPing(docs, s.activityId, s.runnerId)}

\* the pairs of distances the requests for samples s and t can return when
\* the handler of s runs to its end before the handler of t begins
SerialOutcomes(docs, s, t) ==
    {<<d, e>> : d \in SerialDistances(docs, s),
                e \in UNION {SerialDistances(
                                Append(docs, LocationPing(s.activityId,
                                    s.runnerId, s.ts, s.lat, s.lng, c)), t) :
                             c \in SerialDistances(docs, s)}}

\* C4: the distances two location requests of one activity return, whose
\* samples were persisted one after the other, are those of the two handlers
\* run one at a time in one of the two orders.
C4_IngestSerializable ==
    \A p, q \in Clients :
        (/\ resp[p].op = "ingest" /\ resp[p].status = 200
         /\ resp[q].op = "ingest" /\ resp[q].status = 200
         /\ resp[p].activityId = resp[q].activityId
         /\ resp[q].id = resp[p].id + 1)
        => LET docs == SubSeq(pings, 1, resp[p].id - 1)
               s == pings[resp[p].id]
               t == pings[resp[q].id]
           IN  \/ <<resp[p].distance, resp[q].distance>>
                     \in SerialOutcomes(docs, s, t)
               \/ <<resp[q].distance, resp[p].distance>>
                     \in SerialOutcomes(docs, t, s)

(***************************************************************************)
(* SpecMailbox: the cheers of a server that has been running.  The         *)
(* database holds Preloaded messages: one of another activity, one already *)
(* announced, and the others waiting, not all of them inserted in the      *)
(* order of their createdAt (two handlers of send may save in either       *)
(* order).  Two clients send, announce and poll.                           *)
(***************************************************************************)
StoredCheer(i) ==
    [id |-> i, activityId |-> IF i = 1 THEN Act2 ELSE Act1,
     name |-> <<"A", "l">>, message |-> <<"G", "o">>,
     createdAt |-> i % 2,
     deliveredAt |-> IF i = 2 THEN 1 ELSE Undefined]

InitMailbox ==
    /\ now = 1
    /\ nReq = 0
    /\ users = {Usr1}
    /\ events = <<>>
    /\ activities = <<>>
    /\ pings = <<>>
    /\ cheers = [i \in 1..Preloaded |-> StoredCheer(i)]
    /\ connected = {}
    /\ rooms = [s \in Sockets |-> {}]
    /\ emitted = <<>>
    /\ req = [p \in Clients |-> IdleReq]
    /\ resp = [p \in Clients |-> NoResp]
    /\ IPManagerOff
    /\ device = DeviceOff
    /\ page = NoPage

\* the message ids of the announce requests: of the other activity, announced
\* already, waiting, of the first message sent, and of no message
MessageIds == {1, 2, 3, Preloaded + 1, Preloaded + MaxRequests + 1}

NextMailbox ==
    \/ Tick
    \/ \E p \in Clients, a \in {Act1, Act2} :
         SendBegin(p, Usr1, a, <<"A", "l">>, <<"G", "o">>)
    \/ \E p \in Clients : SendSave(p, TRUE)
    \/ \E a \in {Act1, Act2}, m \in MessageIds : Announce(1, Usr1, a, m, TRUE)
    \/ \E a \in {Act1, Act2}, tie \in {1, 0 - 1} :
         Unannounced(1, Usr1, a, tie, TRUE)

SpecMailbox == InitMailbox /\ [][NextMailbox]_vars

\* C5: announce of a message whose deliveredAt is set answers 200 and leaves
\* deliveredAt as the first announce set it.
C5_AnnounceAgainKeepsDeliveredAt ==
    [][\A p \in Clients, a \in {Act1, Act2}, m \in 1..Len(cheers) :
         (/\ cheers[m].activityId = a
          /\ cheers[m].deliveredAt # Undefined
          /\ Announce(p, Usr1, a, m, TRUE))
         => /\ resp'[p].status = 200
            /\ cheers'[m].deliveredAt = cheers[m].deliveredAt]_vars

\* the messages of an activity that wait to be announced
Pending(activityId) ==
    {i \in 1..Len(cheers) : /\ cheers[i].activityId = activityId
                            /\ cheers[i].deliveredAt = Undefined}

\* C6: unannounced returns the oldest waiting messages of the activity, 10
\* of them or all if fewer wait: no announced message, no message of another
\* activity, none twice, none newer than a waiting message it leaves out, and
\* in the order of createdAt, oldest first.
C6_UnannouncedOldestTen ==
    [][\A p \in Clients :
         (\E a \in {Act1, Act2}, tie \in {1, 0 - 1} :
              Unannounced(p, Usr1, a, tie, TRUE))
         => LET m == resp'[p].messages
                waiting == Pending(resp'[p].activityId)
                returned == {m[k] : k \in 1..Len(m)}
            IN  /\ resp'[p].status = 200
                /\ Len(m) = IF Cardinality(waiting) < 10
                            THEN Cardinality(waiting) ELSE 10
                /\ returned \subseteq waiting
                /\ Cardinality(returned) = Len(m)
                /\ \A k \in 1..Len(m) - 1 :
                     cheers[m[k]].createdAt <= cheers[m[k + 1]].createdAt
                /\ \A i \in waiting \ returned, j \in returned :
                     cheers[j].createdAt <= cheers[i].createdAt]_vars

\* unannounced has answered with 10 messages while more than 10 wait, not in
\* the order of their insertion, with an announced message and a message of
\* another activity in the collection
C6_Witness ==
    \E p \in Clients :
        /\ resp[p].op = "unannounced"
        /\ resp[p].status = 200
        /\ Len(resp[p].messages) = 10
        /\ Cardinality(Pending(resp[p].activityId)) > 10
        /\ \E k \in 1..9 : resp[p].messages[k] > resp[p].messages[k + 1]
        /\ \E i \in 1..Len(cheers) :
             /\ cheers[i].activityId = resp[p].activityId
             /\ cheers[i].deliveredAt # Undefined
        /\ \E i \in 1..Len(cheers) : cheers[i].activityId # resp[p].activityId

(***************************************************************************)
(* SpecFaults: one client sends start, location and message requests to a  *)
(* server whose database may reject any operation.                         *)
(***************************************************************************)
NextFaults ==
    \/ \E loc \in {NoLocation, P1}, ev \in Descriptors, ok \in BOOLEAN :
         StartFindUser(1, Usr1, Act1, loc, ev[1], ev[2], ok)
    \/ \E ok \in BOOLEAN : StartStep(1, ok)
    \/ \E ok \in BOOLEAN : IngestFindPrev(1, Usr1, Act1, P2[1], P2[2], ok)
    \/ \E ok \in BOOLEAN : IngestSave(1, ok)
    \/ \E ok \in BOOLEAN : IngestStats(1, ok)
    \/ SendBegin(1, Usr1, Act1, <<"A", "l">>, <<"G", "o">>)
    \/ \E ok \in BOOLEAN : SendSave(1, ok)

SpecFaults == InitEmpty /\ [][NextFaults]_vars

\* the handler of client p answers in this step
Answers(p) ==
    /\ req'[p].pc = "idle"
    /\ req[p].pc # "idle" \/ nReq' = nReq + 1

\* what the k-th event emitted announces is in the database
Persisted(k) ==
    LET e == emitted[k]
    IN  CASE e.kind = "location-update" ->
               /\ e.ref \in 1..Len(pings)
               /\ pings[e.ref].activityId = e.activityId
          [] e.kind = "new-message" ->
               /\ e.ref \in 1..Len(cheers)
               /\ cheers[e.ref].activityId = e.activityId
          [] e.kind = "activity-started" ->
               /\ ActivityDoc(e.activityId).exists
               /\ ActivityDoc(e.activityId).status = "active"

\* C7: a step emits at most one event, what the event announces is in the
\* database when it is emitted, and the handler that emits answers 200; a
\* handler that answers an error in a step emits nothing in it.
C7_PersistBeforePublish ==
    [][/\ emitted' # emitted
          => /\ Len(emitted') = Len(emitted) + 1
             /\ SubSeq(emitted', 1, Len(emitted)) = emitted
             /\ \A k \in {Len(emitted) + 1} : Persisted(k)'
             /\ \E p \in Clients : Answers(p) /\ resp'[p].status = 200
       /\ \A p \in Clients :
            (Answers(p) /\ resp'[p].status >= 400) => emitted' = emitted]_vars

\* a write of a handler was rejected and the handler answered 500, after the
\* handlers of start and of another request, whose writes were accepted,
\* emitted their events
C7_Witness ==
    /\ \E p \in Clients : resp[p].status = 500 /\ req[p].pc = "idle"
    /\ nReq = Len(emitted) + 1
    /\ Len(emitted) = 2
    /\ emitted[1].kind = "activity-started"
    /\ emitted[2].kind # "activity-started"

(***************************************************************************)
(* SpecBroadcast: sockets connect, join and leave rooms and disconnect     *)
(* while a client sends location and message requests.                     *)
(***************************************************************************)
NextBroadcast ==
    \/ \E s \in Sockets : Connect(s)
    \/ \E s \in Sockets, a \in {Act1, Act2} : JoinTracking(s, Usr1, a)
    \/ \E s \in Sockets, a \in {Act1, Act2} : LeaveTracking(s, Usr1, a)
    \/ \E s \in Sockets : Disconnect(s)
    \/ IngestFindPrev(1, Usr1, Act1, P1[1], P1[2], TRUE)
    \/ IngestSave(1, TRUE)
    \/ IngestStats(1, TRUE)
    \/ \E r \in {Usr1, Usr2}, a \in {Act1, Act2} :
         SendBegin(1, r, a, <<"A", "l">>, <<"G", "o">>)
    \/ SendSave(1, TRUE)

SpecBroadcast == InitEmpty /\ [][NextBroadcast]_vars

\* the activities whose rooms socket s has joined
Topics(s) == {room[2] : room \in rooms[s]}

\* C8: an event of activity A is delivered to every connection that has
\* subscribed to A, whichever runner id the request carries, and to no
\* connection that has not subscribed to A.
C8_TopicDeliveryAndIsolation ==
    [][emitted' # emitted
         => LET e == emitted'[Len(emitted')]
            IN  \A s \in connected :
                    (e.activityId \in Topics(s)) <=> (s \in e.to)]_vars

\* C9: a connection is a member of the rooms of at most one activity.
C9_AtMostOneTopic ==
    \A s \in connected : Cardinality(Topics(s)) <= 1

(***************************************************************************)
(* SpecRepeat: one client sends start requests one after the other, for    *)
(* the runner Usr1 and an activity id that validateId accepts: an act_ id  *)
(* or a usr_ id.                                                           *)
(***************************************************************************)
NextRepeat ==
    \/ Tick
    \/ \E a \in {Act1, Usr2}, loc \in {NoLocation, P1}, ev \in Descriptors :
         StartFindUser(1, Usr1, a, loc, ev[1], ev[2], TRUE)
    \/ StartStep(1, TRUE)

SpecRepeat == InitEmpty /\ [][NextRepeat]_vars

\* the handler of client p runs a start request for the identifiers of the
\* start request it answered last
StartsAgain(p) ==
    /\ req[p].pc # "idle"
    /\ resp[p].op = "start"
    /\ resp[p].status # 400
    /\ req[p].runnerId = resp[p].runnerId
    /\ req[p].activityId = resp[p].activityId

\* C11: a start request for the runner and activity of the start request
\* before it adds no runner, no activity and no event record.
C11_StartAgainCreatesNothing ==
    [][\A p \in Clients :
         StartsAgain(p)
         => /\ users' = users
            /\ DOMAIN activities' = DOMAIN activities
            /\ Len(events') = Len(events)]_vars

(***************************************************************************)
(* SpecLifecycle: the server runs on a database that holds the runner      *)
(* Usr1, one custom event and the activity Act1 of the runner, in          *)
(* one of the four statuses of activitySchema.  No route of the server     *)
(* writes finished or cancelled: such a document is written by another     *)
(* client of the database.  One client sends start requests.               *)
(***************************************************************************)
StatusEnum == {"planned", "active", "finished", "cancelled"}

StoredActivity(status) ==
    [exists |-> TRUE, runnerId |-> Usr1, eventId |-> 1, status |-> status,
     startedAt |-> IF status = "planned" THEN Undefined ELSE 0]

InitLifecycle ==
    /\ now = 1
    /\ nReq = 0
    /\ users = {Usr1}
    /\ events = <<[id |-> 1, name |-> "City 5k", type |-> "5k"]>>
    /\ \E status \in StatusEnum :
         activities = (Act1 :> StoredActivity(status))
    /\ pings = <<>>
    /\ cheers = <<>>
    /\ connected = {}
    /\ rooms = [s \in Sockets |-> {}]
    /\ emitted = <<>>
    /\ req = [p \in Clients |-> IdleReq]
    /\ resp = [p \in Clients |-> NoResp]
    /\ IPManagerOff
    /\ device = DeviceOff
    /\ page = NoPage

NextLifecycle ==
    \/ Tick
    \/ \E r \in {Usr1, Usr2}, a \in {Act1, Act2}, loc \in {NoLocation, P1},
          ev \in Descriptors :
         StartFindUser(1, r, a, loc, ev[1], ev[2], TRUE)
    \/ StartStep(1, TRUE)

SpecLifecycle == InitLifecycle /\ [][NextLifecycle]_vars

\* the changes of status that go forward
Forward ==
    {<<"planned", "active">>, <<"active", "finished">>,
     <<"planned", "cancelled">>, <<"active", "cancelled">>}

RunnerInputs == {Usr1, Act1, BadUsr, Legacy1}
ActivityInputs == {Act1, Usr1, Legacy1}

GetStep(p, ok) ==
    \/ GetFindUser(p, ok)
    \/ GetFindEvent(p, ok)
    \/ GetFindLatest(p, ok)

NextIds ==
    \/ \E r \in RunnerInputs, a \in ActivityInputs, loc \in {NoLocation, P1},
          ev \in Descriptors :
         StartFindUser(1, r, a, loc, ev[1], ev[2], TRUE)
    \/ StartStep(1, TRUE)
    \/ \E r \in RunnerInputs, a \in ActivityInputs :
         IngestFindPrev(1, r, a, P1[1], P1[2], TRUE)
    \/ IngestSave(1, TRUE)
    \/ IngestStats(1, TRUE)
    \/ \E r \in RunnerInputs, a \in ActivityInputs :
         GetFindActivity(1, r, a, TRUE)
    \/ GetStep(1, TRUE)
    \/ \E r \in RunnerInputs, a \in ActivityInputs :
         SendBegin(1, r, a, <<"A", "l">>, <<"G", "o">>)
    \/ SendSave(1, TRUE)
    \/ \E r \in RunnerInputs, a \in ActivityInputs :
         List(1, r, a, DefaultLimit, DefaultOffset, 1, TRUE)
    \/ \E r \in RunnerInputs, a \in ActivityInputs :
         Announce(1, r, a, 1, TRUE)
    \/ \E r \in RunnerInputs, a \in ActivityInputs :
         Unannounced(1, r, a, 1, TRUE)

SpecIds == InitEmpty /\ [][NextIds]_vars

\* the runner id is no usr_ id or the activity id is no act_ id
WrongKind(runnerId, activityId) ==
    ~UserIdValid(runnerId) \/ ~ActivityIdValid(activityId)

\* C13: a request whose runner id is no usr_ id or whose activity id is no
\* act_ id is answered 400, and no step of its handler changes a collection.
C13_PerKindValidation ==
    [][\A p \in Clients :
         /\ (/\ Answers(p)
             /\ resp'[p].op # "none"
             /\ WrongKind(resp'[p].runnerId, resp'[p].activityId))
            => resp'[p].status = 400 /\ store' = store
         /\ (/\ req[p].pc # "idle"
             /\ WrongKind(req[p].runnerId, req[p].activityId))
            => store' = store]_vars

(***************************************************************************)
(* SpecInputs: one client sends location requests with latitude or         *)
(* longitude left out of the body and message requests with empty, blank   *)
(* and markup texts.                                                       *)
(***************************************************************************)
\* lat and lng of a body for position pt with the fields of missing left out
Coordinates(pt, missing) ==
    <<IF "lat" \in missing THEN Undefined ELSE pt[1],
      IF "lng" \in missing THEN Undefined ELSE pt[2]>>

Texts ==
    {<<>>, <<" ">>, <<"A", "l">>, <<" ", "<", "&", ">">>, <<"\"", "'", "/">>}

NextInputs ==
    \/ \E pt \in {P1, P2}, missing \in SUBSET {"lat", "lng"} :
         IngestFindPrev(1, Usr1, Act1, Coordinates(pt, missing)[1],
                        Coordinates(pt, missing)[2], TRUE)
    \/ IngestSave(1, TRUE)
    \/ IngestStats(1, TRUE)
    \/ \E sender \in Texts, message \in Texts :
         SendBegin(1, Usr1, Act1, sender, message)
    \/ SendSave(1, TRUE)

SpecInputs == InitEmpty /\ [][NextInputs]_vars

\* C14: a location request without latitude or without longitude is answered
\* 400 at once, stores no sample and emits no event.
C14_MissingCoordinateRejected ==
    [][\A p \in Clients, pt \in {P1, P2}, missing \in SUBSET {"lat", "lng"} :
         (/\ missing # {}
          /\ IngestFindPrev(p, Usr1, Act1, Coordinates(pt, missing)[1],
                            Coordinates(pt, missing)[2], TRUE))
         => /\ resp'[p].op = "ingest"
            /\ resp'[p].status = 400
            /\ req'[p].pc = "idle"
            /\ pings' = pings
            /\ emitted' = emitted]_vars

\* a location request was answered 400 after another had stored a sample
C14_Witness ==
    \E p \in Clients :
        /\ resp[p].op = "ingest"
        /\ resp[p].status = 400
        /\ validateId(resp[p].runnerId) /\ validateId(resp[p].activityId)
        /\ req[p].pc = "idle"
        /\ pings # <<>>

\* C15: a message request whose sender or text is empty after trimming is
\* answered 400 at once, stores no message and emits no event.
C15_BlankTextRejected ==
    [][\A p \in Clients, sender \in Texts, message \in Texts :
         (/\ Trim(sender) = <<>> \/ Trim(message) = <<>>
          /\ SendBegin(p, Usr1, Act1, sender, message))
         => /\ resp'[p].op = "send"
            /\ resp'[p].status = 400
            /\ req'[p].pc = "idle"
            /\ cheers' = cheers
            /\ emitted' = emitted]_vars

\* the character references sanitizeInput writes
Entities ==
    {<<"&", "a", "m", "p", ";">>, <<"&", "l", "t", ";">>,
     <<"&", "g", "t", ";">>, <<"&", "q", "u", "o", "t", ";">>,
     <<"&", "#", "x", "2", "7", ";">>, <<"&", "#", "x", "2", "F", ";">>}

\* text holds no raw <, >, " or ', and & only as the start of a reference
Escaped(text) ==
    \A k \in 1..Len(text) :
        /\ text[k] \notin {"<", ">", "\"", "'"}
        /\ text[k] = "&"
           => \E ent \in Entities :
                 /\ k + Len(ent) - 1 <= Len(text)
                 /\ SubSeq(text, k, k + Len(ent) - 1) = ent

\* C16: the sender and the text of every stored message, of every response of
\* an accepted message request and so of every new-message event, which
\* carries the fields of the stored message, hold no raw markup character.
C16_MarkupEscaped ==
    /\ \A i \in 1..Len(cheers) :
         Escaped(cheers[i].name) /\ Escaped(cheers[i].message)
    /\ \A p \in Clients :
         (resp[p].op = "send" /\ resp[p].status = 200)
         => Escaped(resp[p].sender) /\ Escaped(resp[p].message)
    /\ \A k \in 1..Len(emitted) :
         emitted[k].kind = "new-message"
         => /\ emitted[k].ref \in 1..Len(cheers)
            /\ Escaped(cheers[emitted[k].ref].name)
            /\ Escaped(cheers[emitted[k].ref].message)

\* a message sent with markup in its sender and its text was accepted,
\* stored and announced by an event
C16_Witness ==
    \E p \in Clients, k \in 1..Len(emitted) :
        /\ resp[p].op = "send" /\ resp[p].status = 200
        /\ emitted[k].kind = "new-message"
        /\ emitted[k].ref = resp[p].messageId
        /\ resp[p].sender = <<"&", "q", "u", "o", "t", ";", "&", "#", "x", "2",
                              "7", ";", "&", "#", "x", "2", "F", ";">>
        /\ resp[p].message = <<"&", "l", "t", ";", "&", "a", "m", "p", ";",
                               "&", "g", "t", ";">>
        /\ cheers[resp[p].messageId].message = resp[p].message

(***************************************************************************)
(* SpecRead: one client sends start and get requests one after the other   *)
(* for two runners and two activities.                                     *)
(***************************************************************************)
NextRead ==
    \/ \E r \in {Usr1, Usr2}, a \in {Act1, Act2}, loc \in {NoLocation, P1},
          ev \in Descriptors :
         StartFindUser(1, r, a, loc, ev[1], ev[2], TRUE)
    \/ StartStep(1, TRUE)
    \/ \E r \in {Usr1, Usr2}, a \in {Act1, Act2} :
         GetFindActivity(1, r, a, TRUE)
    \/ GetStep(1, TRUE)

SpecRead == InitEmpty /\ [][NextRead]_vars

\* the handler of client p runs a get request
Getting(p) ==
    req[p].pc \in {"get.findUser", "get.findEvent", "get.findLatest"}

\* C17: no step of a get request changes a collection or emits an event, and
\* a get request is answered 404 if the activity or the runner is not stored
\* and only then.
C17_GetReadsOnly ==
    [][\A p \in Clients :
         /\ (\/ Getting(p)
             \/ \E r \in {Usr1, Usr2}, a \in {Act1, Act2} :
                  GetFindActivity(p, r, a, TRUE))
            => store' = store /\ emitted' = emitted
         /\ (Getting(p) /\ req'[p].pc = "idle")
            => /\ resp'[p].op = "get"
               /\ resp'[p].status \in {200, 404}
               /\ resp'[p].status = 404
                  <=> \/ resp'[p].activityId \notin DOMAIN activities
                      \/ resp'[p].runnerId \notin users]_vars

\* a get request for a stored runner and an activity that is not stored was
\* answered 404 while the collections hold a runner, an event and an activity
C17_Witness ==
    \E p \in Clients :
        /\ resp[p].op = "get"
        /\ resp[p].status = 404
        /\ resp[p].runnerId \in users
        /\ resp[p].activityId \notin DOMAIN activities
        /\ DOMAIN activities # {}
        /\ events # <<>>

(***************************************************************************)
(* SpecList: two clients send messages and one pages through the messages  *)
(* of the database of SpecMailbox.                                         *)
(***************************************************************************)
Limits == {0, 1, 2, DefaultLimit}
Offsets == {DefaultOffset, 1, Preloaded}

NextList ==
    \/ Tick
    \/ \E p \in Clients, a \in {Act1, Act2} :
         SendBegin(p, Usr1, a, <<"A", "l">>, <<"G", "o">>)
    \/ \E p \in Clients : SendSave(p, TRUE)
    \/ \E a \in {Act1, Act2}, limit \in Limits, offset \in Offsets,
          tie \in {1, 0 - 1} :
         List(1, Usr1, a, limit, offset, tie, TRUE)

SpecList == InitMailbox /\ [][NextList]_vars

\* the messages of an activity
MessagesOf(activityId) ==
    {i \in 1..Len(cheers) : cheers[i].activityId = activityId}

\* C18: list answers with messages of the activity only, none twice, newest
\* first, at most limit of them, and the messages of the activity it leaves
\* out are the offset newest, which it skips, and messages not newer than
\* those it returns.
C18_ListPage ==
    [][\A p \in Clients, a \in {Act1, Act2}, limit \in Limits,
          offset \in Offsets, tie \in {1, 0 - 1} :
         List(p, Usr1, a, limit, offset, tie, TRUE)
         => LET m == resp'[p].messages
                returned == {m[k] : k \in 1..Len(m)}
                others == MessagesOf(a) \ returned
                nSkipped == IF offset < Cardinality(MessagesOf(a))
                            THEN offset ELSE Cardinality(MessagesOf(a))
            IN  /\ resp'[p].status = 200
                /\ returned \subseteq MessagesOf(a)
                /\ Cardinality(returned) = Len(m)
                /\ \A k \in 1..Len(m) - 1 :
                     cheers[m[k]].createdAt >= cheers[m[k + 1]].createdAt
                /\ Len(m) <= limit
                /\ \E skipped \in SUBSET others :
                     /\ Cardinality(skipped) = nSkipped
                     /\ \A i \in skipped, j \in returned :
                          cheers[i].createdAt >= cheers[j].createdAt
                     /\ \A i \in others \ skipped, j \in returned :
                          cheers[i].createdAt <= cheers[j].createdAt
                     /\ others \ skipped # {} => Len(m) = limit]_vars

\* C19: a request whose two ids are both of the 20 character format or both
\* of the prefixed format, as the live map page accepts them, is never
\* answered 400 for its ids.
C19_BothFormatsAccepted ==
    [][\A p \in Clients :
         (/\ Answers(p)
          /\ resp'[p].op # "none"
          /\ validateIds(resp'[p].runnerId, resp'[p].activityId))
         => resp'[p].status # 400]_vars

\* C20: no step clears the deliveredAt of a message, and unannounced
\* returns no message whose deliveredAt is set.
C20_DeliveredStaysDelivered ==
    [][/\ \A i \in 1..Len(cheers) :
            cheers[i].deliveredAt # Undefined
            => cheers'[i].deliveredAt # Undefined
       /\ \A p \in Clients :
            (\E a \in {Act1, Act2}, tie \in {1, 0 - 1} :
                 Unannounced(p, Usr1, a, tie, TRUE))
            => \A k \in 1..Len(resp'[p].messages) :
                   cheers[resp'[p].messages[k]].deliveredAt = Undefined]_vars

\* unannounced has answered after a waiting message of the activity was
\* announced, and its answer leaves that message out
C20_Witness ==
    \E p \in Clients, i \in 3..Len(cheers) :
        /\ resp[p].op = "unannounced"
        /\ resp[p].status = 200
        /\ cheers[i].activityId = resp[p].activityId
        /\ cheers[i].deliveredAt # Undefined
        /\ \A k \in 1..Len(resp[p].messages) : resp[p].messages[k] # i

(***************************************************************************)
(* SpecEvents: one client sends start requests for two activities with no  *)
(* event descriptor or with an event name and, with it, each event type    *)
(* the start page offers or none.                                          *)
(***************************************************************************)
\* eventType of the body: a type of the enum, 'custom', or none
EventTypes == EventTypeEnum \cup {"custom", ""}

NextEvents ==
    \/ \E a \in {Act1, Act2}, loc \in {NoLocation, P1},
          eventName \in {"", "City 5k"}, eventType \in EventTypes :
         StartFindUser(1, Usr1, a, loc, eventName, eventType, TRUE)
    \/ StartStep(1, TRUE)

SpecEvents == InitEmpty /\ [][NextEvents]_vars

\* the handler of client p runs a start request with an event name for an
\* activity it did not find
StartsWithDescriptor(p) ==
    /\ req[p].pc \in {"start.saveUser", "start.saveCustomEvent",
                      "start.saveActivity", "start.activate",
                      "start.saveLocation"}
    /\ ~req[p].activityFound
    /\ req[p].eventName # ""

\* C21: a start request with an event name for an activity that does not
\* exist creates an event of that name, whichever type of marathon,
\* half-marathon, 10k, 5k, ultra, custom, other it names or if it names none,
\* and is answered 200 with the activity bound to that event.
C21_CustomEventCreated ==
    [][\A p \in Clients :
         StartsWithDescriptor(p)
         => /\ (req[p].pc = "start.saveCustomEvent" /\ req'[p] # req[p])
               => /\ Len(events') = Len(events) + 1
                  /\ events'[Len(events')].name = req[p].eventName
            /\ Answers(p)
               => /\ resp'[p].status = 200
                  /\ resp'[p].eventId \in 1..Len(events')
                  /\ events'[resp'[p].eventId].name = req[p].eventName
                  /\ \A a \in {req[p].activityId} :
                       ActivityDoc(a)'.eventId = resp'[p].eventId]_vars

(***************************************************************************)
(* Claims checked under SpecBroadcast: an event goes, when it is emitted,  *)
(* to the sockets emitted records with it, and to no socket later.         *)
(***************************************************************************)
\* C22: an event of activity A goes only to connections that are subscribed
\* to A when it is published; no later step, a subscribe included, delivers
\* an event published before, and a request publishes at most one event, so
\* no connection gets an event twice.
C22_NoOfflineQueue ==
    [][/\ Len(emitted') \in {Len(emitted), Len(emitted) + 1}
       /\ \A k \in 1..Len(emitted) : emitted'[k] = emitted[k]
       /\ Len(emitted') <= nReq'
       /\ emitted' # emitted
          => LET e == emitted'[Len(emitted')]
             IN  e.to \subseteq {s \in connected : e.activityId \in Topics(s)}
      ]_vars

\* an event of Act1 went to one socket while the other was not subscribed,
\* after an earlier event went to no socket; the other socket has subscribed
\* to Act1 since
C22_Witness ==
    /\ Len(emitted) = 2
    /\ emitted[1].to = {}
    /\ emitted[2].activityId = Act1
    /\ emitted[2].to = {"s2"}
    /\ "s1" \in connected
    /\ Act1 \in Topics("s1")

(***************************************************************************)
(* SpecGeofence: one client sends location requests, one after the other,  *)
(* with positions inside and outside the Berlin bounds.                    *)
(***************************************************************************)
NextGeofence ==
    \/ Tick
    \/ \E pt \in {P1, P2, POut} :
         IngestFindPrev(1, Usr1, Act1, pt[1], pt[2], TRUE)
    \/ IngestSave(1, TRUE)
    \/ IngestStats(1, TRUE)

SpecGeofence == InitEmpty /\ [][NextGeofence]_vars

\* a position outside the bounds of the course
Outside(lat, lng) ==
    \/ lat < 524800 \/ lat > 525500
    \/ lng < 132500 \/ lng > 134500

\* the latest samples of the activity in the collection
LatestSamples(activityId) ==
    {i \in 1..Len(pings) :
        /\ pings[i].activityId = activityId
        /\ \A j \in 1..Len(pings) :
             pings[j].activityId = activityId => pings[j].ts <= pings[i].ts}

\* C23: a location request with a position outside the bounds is logged as
\* an anomaly and goes on as any other: its sample is stored, its event is
\* emitted, it is answered 200, and the distance of the request that follows
\* (its sample being the one latest sample then) counts the segment from its
\* position.
C23_OutOfBoundsAccepted ==
    [][\A p \in Clients :
         /\ \A pt \in {P1, P2, POut} :
              IngestFindPrev(p, Usr1, Act1, pt[1], pt[2], TRUE)
              => /\ req'[p].pc = "ingest.save"
                 /\ req'[p].warned <=> Outside(pt[1], pt[2])
                 /\ \A i \in LatestSamples(Act1) :
                      (/\ LatestSamples(Act1) = {i}
                       /\ Outside(pings[i].lat, pings[i].lng))
                      => req'[p].distance
                            >= HaversineMeters[<<<<pings[i].lat, pings[i].lng>>,
                                                 pt>>]
         /\ (/\ req[p].pc = "ingest.save"
             /\ req'[p] # req[p]
             /\ Outside(req[p].lat, req[p].lng))
            => /\ Len(pings') = Len(pings) + 1
               /\ pings'[Len(pings')].lat = req[p].lat
               /\ pings'[Len(pings')].lng = req[p].lng
               /\ req'[p].pc = "ingest.stats"
         /\ (/\ req[p].pc = "ingest.stats"
             /\ req'[p] # req[p]
             /\ Outside(req[p].lat, req[p].lng))
            => /\ Len(emitted') = Len(emitted) + 1
               /\ emitted'[Len(emitted')].kind = "location-update"
               /\ emitted'[Len(emitted')].ref = req[p].id
               /\ resp'[p].status = 200
               /\ resp'[p].distance = req[p].distance]_vars

\* a location request that followed one with a position outside the bounds
\* was answered 200 with the distance from that position, both samples
\* stored and both events emitted
C23_Witness ==
    \E p \in Clients :
        /\ resp[p].op = "ingest"
        /\ resp[p].status = 200
        /\ resp[p].distance = 9307
        /\ Len(pings) = 2
        /\ <<pings[1].lat, pings[1].lng>> = POut
        /\ <<pings[2].lat, pings[2].lng>> = P1
        /\ pings[1].ts < pings[2].ts
        /\ Len(emitted) = 2

(***************************************************************************)
(* SpecIP: the IP manager on a development machine.  There is no cache     *)
(* file yet; the access list of the project holds any of the addresses     *)
(* (entered by hand when the cluster was set up); the credentials of the   *)
(* API are set or not.  The public address changes between checks.         *)
(***************************************************************************)
InitIP ==
    /\ now = 0
    /\ nReq = 0
    /\ users = {}
    /\ events = <<>>
    /\ activities = <<>>
    /\ pings = <<>>
    /\ cheers = <<>>
    /\ connected = {}
    /\ rooms = [s \in Sockets |-> {}]
    /\ emitted = <<>>
    /\ req = [p \in Clients |-> IdleReq]
    /\ resp = [p \in Clients |-> NoResp]
    /\ publicIP \in IPs
    /\ ipCache = NoIP
    /\ accessList \in SUBSET IPs
    /\ credentials \in BOOLEAN
    /\ lastCheck = NoCheck
    /\ device = DeviceOff
    /\ page = NoPage

NextIP ==
    \/ \E ipOk \in BOOLEAN, listOk \in BOOLEAN, addOk \in BOOLEAN :
         checkAndUpdateIP(ipOk, listOk, addOk)
    \/ \E ip \in IPs : ChangePublicIP(ip)

SpecIP == InitIP /\ [][NextIP]_vars

\* C24: after checkAndUpdateIP has returned true for the public address x the
\* cache holds x, and the next checkAndUpdateIP, the address still being x
\* and detected, reports it unchanged and sends no request to the Atlas API.
C24_CheckedIPIsCached ==
    [][\A listOk \in BOOLEAN, addOk \in BOOLEAN :
         checkAndUpdateIP(TRUE, listOk, addOk)
         => /\ lastCheck'.result => ipCache' = lastCheck'.ip
            /\ (lastCheck.result /\ lastCheck.ip = publicIP)
               => /\ lastCheck'.report = "unchanged"
                  /\ lastCheck'.atlasCalls = 0]_vars

(***************************************************************************)
(* Claims checked under SpecFaults, where one client sends its requests    *)
(* one after the other: what a start request did not find when it looked   *)
(* and is in the database when it answers was written by its handler.      *)
(***************************************************************************)
\* the handler of client p runs a start request and has looked for the
\* activity
Starting(p) ==
    req[p].pc \in {"start.saveUser", "start.saveCustomEvent",
                   "start.findDefaultEvent", "start.saveDefaultEvent",
                   "start.saveActivity", "start.findEvent", "start.activate",
                   "start.saveLocation"}

\* C25: a start request that is answered with an error has created no
\* runner, no event and no activity and has emitted no event: the step that
\* answers writes nothing, and the runner and the activity the handler did
\* not find and the custom event it saved are not in the database.
C25_StartAllOrNothing ==
    [][\A p \in Clients :
         (Starting(p) /\ Answers(p) /\ resp'[p].status >= 400)
         => /\ store' = store
            /\ emitted' = emitted
            /\ ~req[p].userFound => req[p].runnerId \notin users'
            /\ ~req[p].activityFound
               => req[p].activityId \notin DOMAIN activities'
            /\ (/\ ~req[p].activityFound
                /\ req[p].eventName # ""
                /\ req[p].eventId # 0)
               => req[p].eventId \notin 1..Len(events')]_vars

(***************************************************************************)
(* SpecShared: two runners start at the same time, each its own activity,  *)
(* on a database that holds no event; the steps of the two handlers        *)
(* interleave at their awaits.                                             *)
(***************************************************************************)
\* the runner and the activity of the requests of each client
Runs == <<[runnerId |-> Usr1, activityId |-> Act1],
          [runnerId |-> Usr2, activityId |-> Act2]>>

NextShared ==
    \/ \E p \in Clients, loc \in {NoLocation, P1}, ev \in Descriptors :
         StartFindUser(p, Runs[p].runnerId, Runs[p].activityId, loc,
                       ev[1], ev[2], TRUE)
    \/ \E p \in Clients : StartStep(p, TRUE)

SpecShared == InitEmpty /\ [][NextShared]_vars

\* the default events in the collection
DefaultEvents == {i \in 1..Len(events) : MatchesBerlinMarathon(events[i].name)}

\* C26: the collection holds at most one default event, and the activities
\* that were provisioned without an event name all reference it.
C26_DefaultEventShared ==
    /\ Cardinality(DefaultEvents) <= 1
    /\ \A a, b \in DOMAIN activities :
         (activities[a].eventId \in DefaultEvents
          /\ activities[b].eventId \in DefaultEvents)
         => activities[a].eventId = activities[b].eventId

(***************************************************************************)
(* Claims checked under SpecIds, where the client sends location and       *)
(* message requests for activities no start request has provisioned.       *)
(***************************************************************************)
\* C27: every stored sample and every stored message with a well-formed
\* activity id references an activity that is in the Activity collection.
C27_NoOrphanRecords ==
    /\ \A i \in 1..Len(pings) :
         ActivityIdValid(pings[i].activityId)
         => pings[i].activityId \in DOMAIN activities
    /\ \A i \in 1..Len(cheers) :
         ActivityIdValid(cheers[i].activityId)
         => cheers[i].activityId \in DOMAIN activities

(***************************************************************************)
(* SpecDelivery: the database of SpecMailbox, two clients that send        *)
(* messages to Act1 at the same time, and the device of the runner of      *)
(* Act1, which never stops polling and announcing.                         *)
(***************************************************************************)
InitDelivery ==
    /\ now = 1
    /\ nReq = 0
    /\ users = {Usr1}
    /\ events = <<>>
    /\ activities = <<>>
    /\ pings = <<>>
    /\ cheers = [i \in 1..Preloaded |-> StoredCheer(i)]
    /\ connected = {}
    /\ rooms = [s \in Sockets |-> {}]
    /\ emitted = <<>>
    /\ req = [p \in Clients |-> IdleReq]
    /\ resp = [p \in Clients |-> NoResp]
    /\ IPManagerOff
    /\ device = [pc |-> "poll", queue |-> <<>>, returned |-> <<>>]
    /\ page = NoPage

NextDelivery ==
    \/ Tick
    \/ \E p \in Clients : SendBegin(p, Usr1, Act1, <<"A", "l">>, <<"G", "o">>)
    \/ \E p \in Clients : SendSave(p, TRUE)
    \/ \E tie \in {1, 0 - 1} : DevicePoll(Usr1, Act1, tie)
    \/ DeviceAnnounce(Usr1, Act1)

SpecDelivery ==
    /\ InitDelivery
    /\ [][NextDelivery]_vars
    /\ WF_vars(\E tie \in {1, 0 - 1} : DevicePoll(Usr1, Act1, tie))
    /\ WF_vars(DeviceAnnounce(Usr1, Act1))

\* the device got the messages in the order of their createdAt
ReturnedInOrder ==
    \A j, k \in 1..Len(device.returned) :
        j < k => cheers[device.returned[j]].createdAt
                    <= cheers[device.returned[k]].createdAt

\* C28: with the device polling and announcing without end and finitely
\* many messages sent, from some time on every message stored for the
\* activity is announced, and the device gets the messages for the first
\* time in the order of their createdAt.
C28_EveryMessageAnnounced ==
    /\ <>[](Pending(Act1) = {})
    /\ []ReturnedInOrder

(***************************************************************************)
(* SpecPage: a spectator's page connects, joins the room of Usr1 and Act1, *)
(* loads the messages and receives the events, while a client sends        *)
(* messages with plain, blank and markup texts.                            *)
(***************************************************************************)
NextPage ==
    \/ Connect(PageSocket)
    \/ JoinTracking(PageSocket, Usr1, Act1)
    \/ \E sender \in {<<"A", "l">>, <<" ", "<", "&", ">">>}, message \in Texts :
         SendBegin(1, Usr1, Act1, sender, message)
    \/ SendSave(1, TRUE)
    \/ \E tie \in {1, 0 - 1} : PageLoadMessages(Usr1, Act1, tie)
    \/ PageOnEvent

SpecPage == InitEmpty /\ [][NextPage]_vars

\* C29: the texts the page writes into the HTML of its message list hold no
\* raw < and no raw >.
C29_PageKeepsTextEscaped ==
    \A k \in 1..Len(page.items) :
        /\ \A c \in Range(page.items[k].sender) : c \notin {"<", ">"}
        /\ \A c \in Range(page.items[k].message) : c \notin {"<", ">"}

(***************************************************************************)
(* SpecZero: one client sends start and location requests with positions   *)
(* in Berlin, on the equator and on the prime meridian.                    *)
(***************************************************************************)
NextZero ==
    \/ Tick
    \/ \E loc \in {NoLocation, P1, PEquator, PMeridian}, ev \in Descriptors :
         StartFindUser(1, Usr1, Act1, loc, ev[1], ev[2], TRUE)
    \/ StartStep(1, TRUE)
    \/ \E pt \in {P1, PEquator, PMeridian} :
         IngestFindPrev(1, Usr1, Act1, pt[1], pt[2], TRUE)
    \/ IngestSave(1, TRUE)
    \/ IngestStats(1, TRUE)

SpecZero == InitEmpty /\ [][NextZero]_vars

\* C30: a location request with a latitude and a longitude, 0 included, is
\* not answered 400 and goes on to store its sample; a start request with a
\* start location, 0 included, goes on to store it as a sample once the
\* activity is active.
C30_ZeroCoordinateAccepted ==
    [][\A p \in Clients :
         /\ \A pt \in {P1, PEquator, PMeridian} :
              IngestFindPrev(p, Usr1, Act1, pt[1], pt[2], TRUE)
              => req'[p].pc = "ingest.save"
         /\ (/\ req[p].pc = "start.activate"
             /\ req'[p] # req[p]
             /\ req[p].startLocation[1] # Undefined
             /\ req[p].startLocation[2] # Undefined)
            => req'[p].pc = "start.saveLocation"]_vars

(***************************************************************************)
(* SpecPace: one client starts an activity, sends samples and reads the    *)
(* activity while the clock advances.                                      *)
(***************************************************************************)
NextPace ==
    \/ Tick
    \/ \E loc \in {NoLocation, P1}, ev \in Descriptors :
         StartFindUser(1, Usr1, Act1, loc, ev[1], ev[2], TRUE)
    \/ StartStep(1, TRUE)
    \/ \E pt \in {P1, P2} : IngestFindPrev(1, Usr1, Act1, pt[1], pt[2], TRUE)
    \/ IngestSave(1, TRUE)
    \/ IngestStats(1, TRUE)
    \/ GetFindActivity(1, Usr1, Act1, TRUE)
    \/ GetStep(1, TRUE)

SpecPace == InitEmpty /\ [][NextPace]_vars

\* the seconds a formatted time stands for
SecondsOf(time) ==
    IF Len(time) = 3
    THEN <<(3600 * time[1] + 60 * time[2]) * time[3][2] + time[3][1],
           time[3][2]>>
    ELSE <<60 * time[1] * time[2][2] + time[2][1], time[2][2]>>

\* pace is seconds / (metres / 1000), and 0 if metres is 0
IsPaceOf(pace, seconds, metres) ==
    IF metres = 0 THEN pace[1] = 0
    ELSE pace[1] * metres = seconds * 1000 * pace[2]

\* C31: the pace an ingest computes for a started activity is the seconds
\* since startedAt divided by the cumulative distance in kilometres, and 0
\* if that distance is 0; the pace a read of the activity returns stands in
\* the same relation to the distance and the elapsed time of that read.
C31_PaceIsTimePerKilometre ==
    [][\A p \in Clients :
         /\ IngestStats(p, TRUE)
            => \A stats \in {RaceStats(ActivityDoc(req[p].activityId),
                                       req[p].distance)} :
                 stats.logged
                 => IsPaceOf(stats.currentPace,
                             now - ActivityDoc(req[p].activityId).startedAt,
                             req[p].distance)
         /\ (/\ req[p].pc = "get.findLatest"
             /\ GetFindLatest(p, TRUE)
             /\ resp'[p].status = 200
             /\ resp'[p].startTime # Undefined
             /\ resp'[p].lastLocation # NoLocation)
            => IsPaceOf(SecondsOf(resp'[p].pace),
                        now - resp'[p].startTime, resp'[p].distance)]_vars

(***************************************************************************)
(* SpecFirst: one client starts an activity with or without a start        *)
(* location and sends samples while the clock advances.                    *)
(***************************************************************************)
NextFirst ==
    \/ Tick
    \/ \E loc \in {NoLocation, P1, P2, PEquator}, ev \in Descriptors :
         StartFindUser(1, Usr1, Act1, loc, ev[1], ev[2], TRUE)
    \/ StartStep(1, TRUE)
    \/ \E pt \in {P1, P2} : IngestFindPrev(1, Usr1, Act1, pt[1], pt[2], TRUE)
    \/ IngestSave(1, TRUE)
    \/ IngestStats(1, TRUE)

SpecFirst == InitEmpty /\ [][NextFirst]_vars

\* a start location with a latitude and a longitude
Supplied(loc) == loc[1] # Undefined /\ loc[2] # Undefined

\* C32: a start request with a start location stores that location as a
\* sample of the activity once the activity is active, and the location
\* request that follows the start is answered with the haversine distance
\* from the start location to its position (no other sample being of the
\* time of that sample).
C32_StartLocationIsFirstSample ==
    [][\A p \in Clients :
         /\ (/\ req[p].pc = "start.activate"
             /\ req'[p] # req[p]
             /\ Supplied(req[p].startLocation))
            => /\ req'[p].pc = "start.saveLocation"
               /\ \A a \in {req[p].activityId} :
                    ActivityDoc(a)'.status = "active"
         /\ (req[p].pc = "start.saveLocation" /\ req'[p] # req[p])
            => /\ ActivityDoc(req[p].activityId).status = "active"
               /\ Len(pings') = Len(pings) + 1
               /\ <<pings'[Len(pings')].lat, pings'[Len(pings')].lng>>
                      = req[p].startLocation
               /\ pings'[Len(pings')].activityId = req[p].activityId
         /\ \A pt \in {P1, P2} :
              (/\ resp[p].op = "start"
               /\ resp[p].status = 200
               /\ Supplied(resp[p].startLocation)
               /\ Cardinality(LatestSamples(Act1)) <= 1
               /\ IngestFindPrev(p, Usr1, Act1, pt[1], pt[2], TRUE))
              => /\ req'[p].pc = "ingest.save"
                 /\ req'[p].distance
                        = HaversineMeters[<<resp[p].startLocation, pt>>]]_vars

\* the handler of client p is at the write of a sample or of a message
Writing(p) == req[p].pc \in {"ingest.save", "send.save"}

\* C33: a location or message request whose write to the database fails
\* tries the write again or, at the end of its attempts, is answered 503
\* (ServiceUnavailable); a request answered 200 has stored its sample or its
\* message.
C33_FailedWriteRetriedThenUnavailable ==
    [][\A p \in Clients :
         /\ (Writing(p) /\ req'[p] # req[p] /\ store' = store)
            => \/ req'[p].pc = req[p].pc
               \/ Answers(p) /\ resp'[p].status = 503
         /\ (Answers(p) /\ resp'[p].status = 200 /\ resp'[p].op = "ingest")
            => /\ resp'[p].id \in 1..Len(pings')
               /\ pings'[resp'[p].id].activityId = resp'[p].activityId
         /\ (Answers(p) /\ resp'[p].status = 200 /\ resp'[p].op = "send")
            => /\ resp'[p].messageId \in 1..Len(cheers')
               /\ cheers'[resp'[p].messageId].activityId
                      = resp'[p].activityId]_vars

(***************************************************************************)
(* SpecIsolation: two clients announce messages the database holds, under  *)
(* the activity of the message or under the other activity.                *)
(***************************************************************************)
NextIsolation ==
    \/ Tick
    \/ \E p \in Clients, a \in {Act1, Act2}, m \in {1, 2, 3} :
         Announce(p, Usr1, a, m, TRUE)

SpecIsolation == InitMailbox /\ [][NextIsolation]_vars

\* C34: an announce request under activity a for a stored message of another
\* activity is answered 404 and leaves the message as it is, and no announce
\* request changes a message other than the one it names or the number of
\* messages.
C34_AnnounceWithinActivity ==
    [][\A p \in Clients, a \in {Act1, Act2}, m \in {1, 2, 3} :
         Announce(p, Usr1, a, m, TRUE)
         => /\ cheers[m].activityId # a
               => /\ resp'[p].status = 404
                  /\ cheers'[m] = cheers[m]
            /\ Len(cheers') = Len(cheers)
            /\ \A k \in 1..Len(cheers) :
                 k # m => cheers'[k] = cheers[k]]_vars

\* the message of the other activity was announced under this activity and
\* answered 404: it is as it was stored, not delivered, while a message of
\* this activity has been announced by the other client
C34_Witness ==
    \E p, q \in Clients :
        /\ resp[p].op = "announce"
        /\ resp[p].status = 404
        /\ resp[p].activityId = Act1
        /\ cheers[1] = StoredCheer(1)
        /\ cheers[1].activityId = Act2
        /\ cheers[1].deliveredAt = Undefined
        /\ resp[q].op = "announce"
        /\ resp[q].status = 200
        /\ resp[q].activityId = Act1
        /\ cheers[3].deliveredAt # Undefined

====
